---------------------------- MODULE Spec2Model ----------------------------
(***************************************************************************)
(* A model of the pulp_puppet distributors:                                *)
(*   - the install distributor (installdistributor.py): publish_repo and   *)
(*     its helpers, over an abstract filesystem;                           *)
(*   - the publish run (publish.py): perform_publish and its two stages;   *)
(*   - the path arithmetic both rest on (os.path.join, os.path.normpath,   *)
(*     str.startswith), computed on paths split at "/".                    *)
(*                                                                         *)
(* A path is the sequence of the pieces str.split("/") gives: "/srv/d" is  *)
(* <<"", "srv", "d">>, "/srv/d/" is <<"", "srv", "d", "">>, "/" is         *)
(* <<"", "">> and the empty string is <<"">>.  The correspondence between  *)
(* strings and non-empty piece sequences is one to one, so textual         *)
(* operations are exact on this representation.                            *)
(***************************************************************************)
EXTENDS Naturals, Sequences, FiniteSets, TLC

VARIABLES
    \* ---- the path check on its own (SpecSafe)
    sDest,          \* the destination argument of _archive_paths_are_safe
    sNames,         \* archive.getnames(): the entry names of the archive
    sCalled,        \* whether the call was made
    sResult,        \* the value the call returned (FALSE before it)
    \* ---- the install distributor (SpecInstall)
    install_path,   \* config.get(CONFIG_INSTALL_PATH): a path, or None
    repo_units,     \* what publish_conduit.get_units returns for the repo
    detail_report,  \* self.detail_report.report
    ipc,            \* where publish_repo stands
    units,          \* publish_repo's local list of units
    idx,            \* the unit the running loop is at
    destExists,     \* whether the destination directory exists
    live,           \* top-level entries of the destination: name -> node
    stageExists,    \* whether temporarydestination exists
    stage,          \* top-level entries of temporarydestination
    outside,        \* units that wrote outside both directories
    opened,         \* units whose archive tarfile.open was called on
    outcome,        \* "none", "success", "failure" or "raised"
    summary,        \* the report's summary, or the exception raised
    live0,          \* the destination as it was when the run began
    destExists0,    \* destExists when the run began
    cleared,        \* whether _clear_destination_directory has returned
    \* ---- the publish run (SpecPublish)
    config,         \* the run's configuration: which protocols serve the repo
    repo_modules,   \* what publish_conduit.get_units returns for the repo
    progress_report,\* self.progress_report
    snapshot,       \* the report as the last update_progress emitted it
    updates,        \* the number of update_progress calls of the run
    ppc,            \* where perform_publish stands
    modules,        \* the modules _retrieve_repo_modules returned
    mi,             \* the module the loop of _symlink_modules is at
    exc,            \* the exception a stage raised: [stage, e]
    build,          \* the build directory
    pub,            \* the published copy at each protocol's location
    final_report,   \* what perform_publish returned
    run,            \* the number of publish runs started
    prev_ok,        \* whether the run before this one succeeded
    pub0,           \* the published copies as they were when the run began
    built,          \* the build directory as _copy_to_published found it
    \* ---- unpublish and unpublish_repo (SpecUnpublish, with pub and pub0)
    ucalls,         \* the number of calls made
    ucall,          \* the last call: "repo", "http" or "https" ("" before)
    uraised,        \* the exception the last call raised ("" when none)
    ubefore,        \* the published copies as the last call found them
    \* ---- distributor_removed (SpecUninstall, with install_path, destExists
    \*      and live)
    dcalls,         \* the number of calls made
    draised,        \* the exception the last call raised ("" when none)
    \* ---- _generate_dependency_data (SpecIndex)
    index_modules,  \* the modules argument
    db_prior,       \* the index file found at the path: <<>> when none,
                    \* else <<its content>>
    depdb,          \* db, the open database
    index_i,        \* the number of modules the loop has handled
    index_pc,       \* "off", "start", "loop", "done" or "raised"
    \* ---- extract_metadata (SpecMeta)
    meta_filename,  \* filename, the path of the module's archive
    temp_dir,       \* temp_dir
    meta_module,    \* module: <<>> when None, else <<the module>>
    tarball,        \* the archive at filename
    tmpfs,          \* the files under temp_dir, by path
    extraction_dir, \* the directory mkdtemp made (<<>> before)
    mpc,            \* "off", "start", "standard", "mkdtemp", "extractall",
                    \* "search", "returned" or "raised"
    standard_exc,   \* what _extract_json ended in ("" when not called, "ok",
                    \* or the exception type)
    fallback_ran,   \* _extract_non_standard_json was called
    metadata_result,\* <<>>, or <<the value returned>>
    meta_exc,       \* the exception raised: type ("" when none) and
                    \* module_filename
    \* ---- calculate_checksum (SpecChecksum)
    file_content,   \* the bytes of the file
    read_size,      \* the size given to f.read
    file_pos,       \* the position of f
    hash_m,         \* m, the hash object
    fed,            \* the bytes given to m.update so far, in order
    reads,          \* the number of calls of f.read
    checksum,       \* <<>>, or <<the digest returned>>
    cpc,            \* "off", "loop" or "done"
    \* ---- validate_config (SpecValidate)
    proposed,       \* config.get(CONFIG_INSTALL_PATH) of the proposed
                    \* configuration: its type and, for a string, its pieces
    validated,      \* <<>>, or <<what validate_config returned>>
    run_destination,\* <<>>, or <<the destination an install run read>>
    vpc,            \* "off", "proposed", "accepted", "rejected", "running"
    \* ---- publish_repo called again on the same distributor
    \*      (SpecInstallRuns, with the variables of SpecInstall)
    iruns,          \* the number of calls of publish_repo started
    dangling,       \* the temporary directories of earlier calls that are
                    \* still there, by the call that made them
    \* ---- runs of one pipeline for one repository that overlap in time
    \*      (SpecOverlap)
    opipe,          \* "none", or the pipeline of the runs: "publish", "install"
    opc,            \* the position of each run
    odir,           \* the staging directory each run works in, <<>> for none
    ofs,            \* the staging directories that exist: path -> the files
                    \* in it, each [name, owner], owner the run that wrote it
    oforeign,       \* what a run did to a file staged by another run that
                    \* was still going: [by, owner, op]
    \* ---- cancellation of a publish run (SpecCancel, with the variables
    \*      of SpecPublish)
    cancelled_in,   \* the run from within which is_cancelled_call returns
                    \* True, 0 when it never has
    \* ---- the stored archives and the trees the pipelines work on
    \*      (SpecStorage)
    store_fs,       \* the filesystem: path -> [kind, content, to], a file
                    \* with its content or a symbolic link with its target;
                    \* a directory is there when a path below it is
    store_op,       \* the operation that ran last, "" for none
    \* ---- the entries COMMIT and distributor_removed act on (SpecCommit)
    commit_units,   \* the units of the repository
    commit_pc,      \* "off", "idle", "stage", "clear", "move" or "done"
    commit_idx,     \* the unit the staging loop is at
    commit_dest,    \* the destination: whether it exists, and its top level
    commit_tmp,     \* the staging directory, likewise
    commit_report   \* what the last call returned or raised ("" before)

safeVars == <<sDest, sNames, sCalled, sResult>>

instVars == <<install_path, repo_units, detail_report, ipc, units, idx,
              destExists, live, stageExists, stage, outside, opened,
              outcome, summary, live0, destExists0, cleared>>

pubVars == <<config, repo_modules, progress_report, snapshot, updates, ppc,
             modules, mi, exc, build, pub, final_report, run, prev_ok, pub0,
             built>>

unpubVars == <<ucalls, ucall, uraised, ubefore>>

\* the variables of the specifications other than SpecSafe, SpecInstall and
\* SpecPublish, which these three leave alone
uninstVars == <<dcalls, draised>>

indexVars == <<index_modules, db_prior, depdb, index_i, index_pc>>

metaVars == <<meta_filename, temp_dir, meta_module, tarball, tmpfs,
              extraction_dir, mpc, standard_exc, fallback_ran,
              metadata_result, meta_exc>>

sumVars == <<file_content, read_size, file_pos, hash_m, fed, reads, checksum, cpc>>

validVars == <<proposed, validated, run_destination, vpc>>

overlapVars == <<opipe, opc, odir, ofs, oforeign>>

cancelVars == <<cancelled_in>>

storeVars == <<store_fs, store_op>>

commitVars == <<commit_units, commit_pc, commit_idx, commit_dest, commit_tmp,
                commit_report>>

runVars == <<iruns, dangling, overlapVars, cancelVars, storeVars, commitVars>>

moreVars == <<unpubVars, uninstVars, indexVars, metaVars, sumVars, validVars,
              runVars>>

vars == <<safeVars, instVars, pubVars, moreVars>>

IdleUnpublish ==
    /\ ucalls = 0
    /\ ucall = ""
    /\ uraised = ""
    /\ ubefore = << >>

IdleUninstall ==
    /\ dcalls = 0
    /\ draised = ""

IdleIndex ==
    /\ index_modules = << >>
    /\ db_prior = << >>
    /\ depdb = << >>
    /\ index_i = 0
    /\ index_pc = "off"

IdleMeta ==
    /\ meta_filename = << >>
    /\ temp_dir = << >>
    /\ meta_module = << >>
    /\ tarball = [opens |-> FALSE, extracts |-> FALSE, entries |-> << >>]
    /\ tmpfs = << >>
    /\ extraction_dir = << >>
    /\ mpc = "off"
    /\ standard_exc = ""
    /\ fallback_ran = FALSE
    /\ metadata_result = << >>
    /\ meta_exc = [type |-> "", module_filename |-> << >>]

IdleChecksum ==
    /\ file_content = << >>
    /\ read_size = 1
    /\ file_pos = 0
    /\ hash_m = [h |-> 0, n |-> 0]
    /\ fed = << >>
    /\ reads = 0
    /\ checksum = << >>
    /\ cpc = "off"

IdleValidate ==
    /\ proposed = [type |-> "none", value |-> << >>]
    /\ validated = << >>
    /\ run_destination = << >>
    /\ vpc = "off"

MaxOverlap == 2

\* the runs that may overlap
Runs == 1..MaxOverlap

IdleOverlap ==
    /\ opipe = "none"
    /\ opc = [r \in Runs |-> "off"]
    /\ odir = [r \in Runs |-> << >>]
    /\ ofs = << >>
    /\ oforeign = {}

IdleCancel == cancelled_in = 0

IdleStore ==
    /\ store_fs = << >>
    /\ store_op = ""

IdleCommit ==
    /\ commit_units = << >>
    /\ commit_pc = "off"
    /\ commit_idx = 0
    /\ commit_dest = [exists |-> FALSE, tree |-> << >>]
    /\ commit_tmp = [exists |-> FALSE, tree |-> << >>]
    /\ commit_report = ""

IdleRuns ==
    /\ iruns = 0
    /\ dangling = {}
    /\ IdleOverlap
    /\ IdleCancel
    /\ IdleStore
    /\ IdleCommit

IdleMore ==
    /\ IdleRuns
    /\ IdleUnpublish
    /\ IdleUninstall
    /\ IdleIndex
    /\ IdleMeta
    /\ IdleChecksum
    /\ IdleValidate

-----------------------------------------------------------------------------
(* Sequences                                                               *)

Front(s) == SubSeq(s, 1, Len(s) - 1)

Last(s) == s[Len(s)]

IsPrefix(p, s) == Len(p) <= Len(s) /\ SubSeq(s, 1, Len(p)) = p

Range(s) == {s[i] : i \in 1..Len(s)}

-----------------------------------------------------------------------------
(* Paths: posixpath as the code uses it                                    *)

\* str.startswith("/")
IsAbs(p) == Len(p) >= 2 /\ p[1] = ""

\* str.endswith("/")
EndsWithSep(p) == Len(p) >= 2 /\ Last(p) = ""

\* os.path.join(a, b) of posixpath: an absolute b replaces a; otherwise b is
\* appended, with a separator unless a is empty or already ends with one.
join(a, b) ==
    IF IsAbs(b) THEN b
    ELSE IF a = <<"">> \/ EndsWithSep(a) THEN Front(a) \o b
    ELSE a \o b

\* The loop of posixpath.normpath over the pieces: "" and "." are dropped,
\* ".." removes the piece before it, except at the start of a relative path
\* or after another "..", where it is kept; at the root it is dropped.
RECURSIVE normComps(_, _, _)
normComps(comps, acc, rooted) ==
    IF comps = <<>> THEN acc
    ELSE LET c == Head(comps) IN
         IF c \in {"", "."} THEN normComps(Tail(comps), acc, rooted)
         ELSE IF c /= ".." \/ (~rooted /\ acc = <<>>)
                           \/ (acc /= <<>> /\ Last(acc) = "..")
              THEN normComps(Tail(comps), Append(acc, c), rooted)
         ELSE IF acc /= <<>> THEN normComps(Tail(comps), Front(acc), rooted)
         ELSE normComps(Tail(comps), acc, rooted)

\* The number of leading slashes normpath keeps: POSIX lets exactly two
\* leading slashes mean something else than one, three or more mean one.
initial_slashes(p) ==
    IF ~IsAbs(p) THEN 0
    ELSE IF Len(p) >= 3 /\ p[2] = "" /\ ~(Len(p) >= 4 /\ p[3] = "") THEN 2
    ELSE 1

\* os.path.normpath(p)
normpath(p) ==
    LET n     == initial_slashes(p)
        comps == normComps(p, <<>>, n > 0)
    IN  IF p = <<"">> THEN <<".">>
        ELSE IF n = 0 THEN (IF comps = <<>> THEN <<".">> ELSE comps)
        ELSE IF comps = <<>> THEN [i \in 1..(n + 1) |-> ""]
        ELSE [i \in 1..n |-> ""] \o comps

\* result.startswith(prefix) for a prefix that ends with "/": the pieces of
\* the prefix before its last, empty, piece are the first pieces of result,
\* and result goes on after them.
StartsWithDir(result, prefix) ==
    /\ Len(result) >= Len(prefix)
    /\ SubSeq(result, 1, Len(prefix) - 1) = Front(prefix)

\* destination, with "/" appended unless it ends with one (lines 288-289)
WithSep(destination) ==
    IF EndsWithSep(destination) THEN destination ELSE Append(destination, "")

\* _archive_paths_are_safe without the os.path.normpath of line 287
NoNormpath_archive_paths_are_safe(destination, names) ==
    \A i \in 1..Len(names) :
        StartsWithDir(join(destination, names[i]), WithSep(destination))

\* _archive_paths_are_safe(destination, archive), names = archive.getnames()
RECURSIVE _archive_paths_are_safe(_, _)
_archive_paths_are_safe(destination, names) ==
    IF names = <<>> THEN TRUE
    ELSE LET result == normpath(join(destination, Head(names)))
             dest2  == WithSep(destination)
         IN  IF ~StartsWithDir(result, dest2) THEN FALSE
             ELSE _archive_paths_are_safe(dest2, Tail(names))

-----------------------------------------------------------------------------
(* The install distributor: data                                           *)

\* config.get returns None when the option is absent
None == <<>>

\* the empty string, as a path
EmptyString == <<"">>

\* "if not destination" that lets the empty string through
NoneOnly_not_destination(destination) == destination = None

\* "not destination" of publish_repo and "if destination" of
\* distributor_removed: None and the empty string are not a destination
not_destination(destination) == destination \in {None, EmptyString}

\* Exceptions, by the class the except clauses look at.  tarfile.ReadError
\* derives from tarfile.TarError and shutil.Error from EnvironmentError:
\* neither is an OSError, an IOError or a ValueError.
ERROR_MESSAGE_PATH == "one or more units contains a path outside its base extraction path"

\* ---- the filesystem
\* A directory's top level is a function from the names in it to nodes
\* [dir, c]: whether the entry is a directory, and whose content it holds:
\* the unit keys of the units extracted there, and Old for what was there
\* before the run.
Old == [author |-> "", name |-> "", version |-> ""]

EmptyDir == << >>

Remove(tree, name) == [n \in (DOMAIN tree) \ {name} |-> tree[n]]

Dirs(tree) == {n \in DOMAIN tree : tree[n].dir}

\* get_parent_directory(path) of pulp.plugins.util.misc:
\* os.path.realpath(os.path.join(path, os.pardir)), without symbolic links
get_parent_directory(path) == normpath(join(path, <<"..">>))

\* tempfile.mkdtemp(prefix='pulp', dir=basedir): a fresh name under basedir,
\* which no archive can name
TempName == "pulpXXXXXX"

\* _create_temporary_destination_directory(destination), its return value
_create_temporary_destination_directory(destination) ==
    join(get_parent_directory(destination), <<TempName>>)

\* ---- archives
\* [open, members]: what tarfile.open does with the file ("ok", "IOError"
\* when it cannot be read, "ReadError" when it is not a tar archive), and
\* the members in archive order, [name, isdir].
Dir(name)  == [name |-> name, isdir |-> TRUE]

File(name) == [name |-> name, isdir |-> FALSE]

Tar(members) == [open |-> "ok", members |-> members]

getnames(archive) == [i \in 1..Len(archive.members) |-> archive.members[i].name]

\* Where extracting a member below `path` writes: the operating system
\* resolves os.path.join(path, tarinfo.name); without symbolic links and
\* with the directories on the way present that is the normalised path.
Target(path, name) == normpath(join(path, name))

Under(dir, target) == Len(target) > Len(dir) /\ IsPrefix(dir, target)

\* One entry written into a directory's top level: `top` is the name below
\* the directory, `depth` how deep below it the member lies.
\* tarfile.makedir ignores EEXIST; makedirs and open fail on a clash of a
\* file with a directory.
Put(tree, top, depth, isdir, tag) ==
    LET needDir == depth > 1 \/ isdir IN
    IF top \notin DOMAIN tree
        THEN [ok |-> TRUE, tree |-> tree @@ (top :> [dir |-> needDir, c |-> {tag}])]
    ELSE IF tree[top].dir /\ needDir
        THEN [ok |-> TRUE,
              tree |-> [tree EXCEPT ![top].c = @ \cup {tag}]]
    ELSE IF ~tree[top].dir /\ ~needDir
        THEN [ok |-> TRUE, tree |-> [tree EXCEPT ![top].c = {tag}]]
    ELSE IF ~tree[top].dir /\ depth = 1
        THEN [ok |-> TRUE, tree |-> tree]
    ELSE [ok |-> FALSE, tree |-> tree]

\* tarfile's extract of one member below temporarydestination `tmp`, on the
\* filesystem fs = [ok, stage, live, outside]; destination is where the
\* live directory is.
ExtractMember(fs, m, tag, tmp, destination) ==
    LET target == Target(tmp, m.name)
        tmpN   == normpath(tmp)
        destN  == normpath(destination)
    IN  IF Under(tmpN, target)
            THEN LET r == Put(fs.stage, target[Len(tmpN) + 1],
                              Len(target) - Len(tmpN), m.isdir, tag)
                 IN  [fs EXCEPT !.ok = r.ok, !.stage = r.tree]
        ELSE IF Under(destN, target)
            THEN LET r == Put(fs.live, target[Len(destN) + 1],
                              Len(target) - Len(destN), m.isdir, tag)
                 IN  [fs EXCEPT !.ok = r.ok, !.live = r.tree]
        ELSE IF IsPrefix(target, tmpN) \/ IsPrefix(target, destN)
            THEN [fs EXCEPT !.ok = m.isdir]
        ELSE [fs EXCEPT !.outside = @ \cup {tag}]

\* archive.extractall(tmp), stopping at the first member that fails
RECURSIVE extractall(_, _, _, _, _)
extractall(fs, members, tag, tmp, destination) ==
    IF members = <<>> \/ ~fs.ok THEN fs
    ELSE extractall(ExtractMember(fs, Head(members), tag, tmp, destination),
                    Tail(members), tag, tmp, destination)

\* ---- DetailReport
NewReport == [success_unit_keys |-> <<>>, errors |-> <<>>]

success(report, unit_key) ==
    [report EXCEPT !.success_unit_keys = Append(@, unit_key)]

error(report, unit_key, error_message) ==
    [report EXCEPT !.errors = Append(@, <<unit_key, error_message>>)]

has_errors(report) == report.errors /= <<>>

\* ---- _find_duplicate_names(units): the units whose name another unit has
NameCount(us, name) == Cardinality({i \in 1..Len(us) : us[i].unit_key.name = name})

RECURSIVE SelectUnits(_, _)
SelectUnits(us, names) ==
    IF us = <<>> THEN <<>>
    ELSE IF Head(us).unit_key.name \in names
         THEN <<Head(us)>> \o SelectUnits(Tail(us), names)
         ELSE SelectUnits(Tail(us), names)

\* _find_duplicate_names that misses the first unit of every shared name
LaterOnly_find_duplicate_names(us) ==
    LET later == {j \in 1..Len(us) :
                     \E i \in 1..(j - 1) : us[i].unit_key.name = us[j].unit_key.name}
    IN  [k \in 1..Cardinality(later) |->
            us[CHOOSE j \in later : Cardinality({i \in later : i < j}) = k - 1]]

_find_duplicate_names(us) ==
    LET duplicates == {us[i].unit_key.name : i \in {j \in 1..Len(us) :
                            NameCount(us, us[j].unit_key.name) > 1}}
    IN  SelectUnits(us, duplicates)

\* self.detail_report.error for each unit of a list (lines 104-106)
RECURSIVE ErrorEach(_, _, _)
ErrorEach(report, us, msg) ==
    IF us = <<>> THEN report
    ELSE ErrorEach(error(report, Head(us).unit_key, msg), Tail(us), msg)

\* ---- _rename_directory(unit, destination, names)
\* os.path.join(destination, name)[dest_length:].split('/')[0] for a
\* relative name: the name's first piece, as written.  (An absolute name
\* makes join return the name itself, which the slice then cuts at a place
\* that depends on the lengths of the two strings; the archives that reach
\* this call here have relative names only.)
FirstPiece(name) == CASE ~IsAbs(name) -> name[1]

dir_names(names) == {FirstPiece(names[i]) : i \in 1..Len(names)}

\* _rename_directory on the staging directory's top level `tree`:
\*   [raise |-> "" | "ValueError" | "Error" | "OSError", tree |-> tree after]
\* shutil.move(before, after): os.rename of the staging directory, or of a
\* directory above it, into itself fails and shutil raises shutil.Error; an
\* existing directory `after` takes the source inside it (no archive here
\* has an entry <after>/<piece>, so that place is free); an existing file
\* `after` makes the rename of a directory and the copy that follows fail
\* with OSError, and is replaced by the rename of a file; a missing source
\* fails with OSError (rename) and then IOError (copy2), both caught alike.
_rename_directory(unit, destination, names, tree) ==
    LET dn     == dir_names(names)
        piece  == CHOOSE d \in dn : TRUE
        name   == unit.unit_key.name
        destN  == normpath(destination)
        before == normpath(join(WithSep(destination), <<piece>>))
        after  == normpath(join(WithSep(destination), <<name>>))
    IN  IF Cardinality(dn) /= 1
            THEN [raise |-> "ValueError", tree |-> tree]
        ELSE IF before = after
            THEN [raise |-> "", tree |-> tree]
        ELSE IF ~Under(destN, before)
            THEN [raise |-> "Error", tree |-> tree]
        ELSE IF piece \notin DOMAIN tree
            THEN [raise |-> "OSError", tree |-> tree]
        ELSE IF name \notin DOMAIN tree
            THEN [raise |-> "",
                  tree |-> (name :> tree[piece]) @@ Remove(tree, piece)]
        ELSE IF tree[name].dir
            THEN [raise |-> "",
                  tree |-> [Remove(tree, piece) EXCEPT
                               ![name].c = @ \cup tree[piece].c]]
        ELSE IF tree[piece].dir
            THEN [raise |-> "OSError", tree |-> tree]
        ELSE [raise |-> "",
              tree |-> (name :> tree[piece]) @@ Remove(tree, piece)]

-----------------------------------------------------------------------------
(* The install distributor: inputs                                         *)

MaxUnits == 3

\* The configured destination, and its absence
Destination == <<"", "srv", "d">>

InstallPaths == {Destination, None, EmptyString}

UnitKeys ==
    { [author |-> "a", name |-> "x", version |-> "1"],
      [author |-> "b", name |-> "x", version |-> "2"],
      [author |-> "a", name |-> "y", version |-> "1"] }

\* a single top-level directory t holding a file
Std(t) == Tar(<<Dir(<<t>>), File(<<t, "f">>)>>)

\* two top-level directories
TwoTops == Tar(<<File(<<"x", "f">>), File(<<"q", "f">>)>>)

\* no member at all
EmptyTar == Tar(<<>>)

\* a single file at the top level
TopFile == Tar(<<File(<<"f">>)>>)

\* p/../../d/z/f: under the destination when joined with it, and so
\* accepted by the path check; ../d/z/f likewise
Escape == Tar(<<Dir(<<"p">>), File(<<"p", "..", "..", "d", "z", "f">>)>>)

DotDotFirst == Tar(<<File(<<"..", "d", "z", "f">>)>>)

\* ../../e and /etc/e: outside the destination
UnsafeRel == Tar(<<File(<<"p", "f">>), File(<<"..", "..", "e">>)>>)

UnsafeAbs == Tar(<<File(<<"", "etc", "e">>)>>)

\* not a tar archive; a file that cannot be read
Corrupt == [open |-> "ReadError", members |-> <<>>]

Unreadable == [open |-> "IOError", members |-> <<>>]

Archives == {Std("p"), Std("x"), TwoTops, EmptyTar, TopFile, Escape,
             DotDotFirst, UnsafeRel, UnsafeAbs, Corrupt, Unreadable}

Units == [unit_key : UnitKeys, archive : Archives]

\* The units of a repository: unit keys are unique in a repository
UnitLists ==
    {us \in UNION {[1..n -> Units] : n \in 0..MaxUnits} :
        \A i, j \in 1..Len(us) : us[i].unit_key = us[j].unit_key => i = j}

\* The destination before the run: absent, or holding earlier content
LiveInits ==
    { [exists |-> FALSE, tree |-> EmptyDir],
      [exists |-> TRUE,
       tree |-> ("o" :> [dir |-> TRUE, c |-> {Old}]) @@
                ("x" :> [dir |-> TRUE, c |-> {Old}])],
      [exists |-> TRUE,
       tree |-> ("o" :> [dir |-> TRUE, c |-> {Old}]) @@
                ("y" :> [dir |-> FALSE, c |-> {Old}])] }

-----------------------------------------------------------------------------
(* The install distributor: publish_repo                                   *)

IdleInstall ==
    /\ install_path = None
    /\ repo_units = <<>>
    /\ detail_report = NewReport
    /\ ipc = "off"
    /\ units = <<>>
    /\ idx = 0
    /\ destExists = FALSE
    /\ live = EmptyDir
    /\ stageExists = FALSE
    /\ stage = EmptyDir
    /\ outside = {}
    /\ opened = {}
    /\ outcome = "none"
    /\ summary = ""
    /\ live0 = EmptyDir
    /\ destExists0 = FALSE
    /\ cleared = FALSE

\* PuppetModuleInstallDistributor(): a new distributor, its report empty,
\* before a repository, a configuration and a filesystem
InitInstallVars ==
    /\ install_path \in InstallPaths
    /\ repo_units \in UnitLists
    /\ detail_report = NewReport
    /\ ipc = "idle"
    /\ units = <<>>
    /\ idx = 0
    /\ \E l \in LiveInits :
          destExists = l.exists /\ live = l.tree /\
          destExists0 = l.exists /\ live0 = l.tree
    /\ stageExists = FALSE
    /\ stage = EmptyDir
    /\ outside = {}
    /\ opened = {}
    /\ outcome = "none"
    /\ summary = ""
    /\ cleared = FALSE

\* `return publish_conduit.build_..._report(text, self.detail_report.report)`
\* or an exception leaving publish_repo
Finish(kind, text) ==
    /\ outcome' = kind
    /\ summary' = text
    /\ ipc' = "done"

temporarydestination == _create_temporary_destination_directory(install_path)

\* lines 95-107: the configuration, the units, the duplicate names
Begin ==
    /\ ipc = "idle"
    /\ \/ /\ not_destination(install_path)
          /\ Finish("failure", "install path not provided")
          /\ UNCHANGED <<units, detail_report, idx>>
       \/ /\ ~not_destination(install_path)
          /\ _find_duplicate_names(repo_units) /= <<>>
          /\ units' = repo_units
          /\ detail_report' = ErrorEach(detail_report,
                                  _find_duplicate_names(repo_units),
                                  "another unit in this repo also has this name")
          /\ Finish("failure", "duplicate unit names")
          /\ UNCHANGED idx
       \/ /\ ~not_destination(install_path)
          /\ _find_duplicate_names(repo_units) = <<>>
          /\ units' = repo_units
          /\ idx' = 1
          /\ ipc' = "check"
          /\ UNCHANGED <<detail_report, outcome, summary>>
    /\ UNCHANGED <<safeVars, pubVars, moreVars, install_path, repo_units, destExists, live, stageExists,
                   stage, outside, opened, live0, destExists0, cleared>>

\* lines 260-269: one turn of the loop of _check_for_unsafe_archive_paths
CheckUnit ==
    /\ ipc = "check"
    /\ idx <= Len(units)
    /\ LET unit == units[idx] IN
       /\ opened' = opened \cup {idx}
       /\ \/ /\ unit.archive.open = "ReadError"
             /\ Finish("raised", "ReadError")
             /\ UNCHANGED <<detail_report, idx>>
          \/ /\ unit.archive.open = "IOError"
             /\ detail_report' = error(detail_report, unit.unit_key, "IOError")
             /\ idx' = idx + 1
             /\ UNCHANGED <<ipc, outcome, summary>>
          \/ /\ unit.archive.open = "ok"
             /\ detail_report' =
                   IF _archive_paths_are_safe(install_path, getnames(unit.archive))
                   THEN detail_report
                   ELSE error(detail_report, unit.unit_key, ERROR_MESSAGE_PATH)
             /\ idx' = idx + 1
             /\ UNCHANGED <<ipc, outcome, summary>>
    /\ UNCHANGED <<safeVars, pubVars, moreVars, install_path, repo_units, units, destExists, live,
                   stageExists, stage, outside, live0, destExists0, cleared>>

\* lines 111-121: the early return, then the two directories.
\* mkdir(destination) and mkdtemp fail with OSError when the filesystem
\* refuses.
Prepare ==
    /\ ipc = "check"
    /\ idx > Len(units)
    /\ \/ /\ has_errors(detail_report)
          /\ Finish("failure", "failed")
          /\ UNCHANGED <<destExists, stageExists, idx>>
       \/ /\ ~has_errors(detail_report)
          /\ Finish("failure", "failed to create destination directory")
          /\ UNCHANGED <<destExists, stageExists, idx>>
       \/ /\ ~has_errors(detail_report)
          /\ destExists' = TRUE
          /\ Finish("failure", "failed to create destination directory")
          /\ UNCHANGED <<stageExists, idx>>
       \/ /\ ~has_errors(detail_report)
          /\ destExists' = TRUE
          /\ stageExists' = TRUE
          /\ idx' = 1
          /\ ipc' = "stage"
          /\ UNCHANGED <<outcome, summary>>
    /\ UNCHANGED <<safeVars, pubVars, moreVars, install_path, repo_units, detail_report, units, live,
                   stage, outside, opened, live0, destExists0, cleared>>

\* The filesystem as the extraction sees and leaves it
Fs == [ok |-> TRUE, stage |-> stage, live |-> live, outside |-> outside]

SetFs(fs) ==
    /\ stage' = fs.stage
    /\ live' = fs.live
    /\ outside' = fs.outside

\* lines 124-134: one turn of the loop that extracts and renames
StageUnit ==
    /\ ipc = "stage"
    /\ idx <= Len(units)
    /\ LET unit    == units[idx]
           members == unit.archive.members
           full    == extractall(Fs, members, unit.unit_key,
                                 temporarydestination, install_path)
           renamed == _rename_directory(unit, temporarydestination,
                                        getnames(unit.archive), full.stage)
       IN
       /\ opened' = opened \cup {idx}
       /\ \/ \* tarfile.open raises IOError
             /\ detail_report' = error(detail_report, unit.unit_key, "IOError")
             /\ idx' = idx + 1
             /\ UNCHANGED <<stage, live, outside, ipc, outcome, summary>>
          \/ \* extractall raises IOError or OSError after k members
             /\ \E k \in 0..(Len(members) - 1) :
                   SetFs(extractall(Fs, SubSeq(members, 1, k), unit.unit_key,
                                    temporarydestination, install_path))
             /\ detail_report' = error(detail_report, unit.unit_key, "IOError")
             /\ idx' = idx + 1
             /\ UNCHANGED <<ipc, outcome, summary>>
          \/ \* a member clashes with what is there
             /\ ~full.ok
             /\ SetFs(full)
             /\ detail_report' = error(detail_report, unit.unit_key, "IOError")
             /\ idx' = idx + 1
             /\ UNCHANGED <<ipc, outcome, summary>>
          \/ \* _rename_directory raises ValueError, or OSError in shutil.move
             /\ full.ok
             /\ renamed.raise \in {"ValueError", "OSError"}
             /\ SetFs(full)
             /\ detail_report' = error(detail_report, unit.unit_key, renamed.raise)
             /\ idx' = idx + 1
             /\ UNCHANGED <<ipc, outcome, summary>>
          \/ \* the filesystem refuses the rename: OSError
             /\ full.ok
             /\ renamed.raise = ""
             /\ renamed.tree /= full.stage
             /\ SetFs(full)
             /\ detail_report' = error(detail_report, unit.unit_key, "OSError")
             /\ idx' = idx + 1
             /\ UNCHANGED <<ipc, outcome, summary>>
          \/ \* shutil.move raises shutil.Error, which no clause catches
             /\ full.ok
             /\ renamed.raise = "Error"
             /\ SetFs(full)
             /\ Finish("raised", "shutil.Error")
             /\ UNCHANGED <<detail_report, idx>>
          \/ \* extracted and renamed
             /\ full.ok
             /\ renamed.raise = ""
             /\ SetFs([full EXCEPT !.stage = renamed.tree])
             /\ detail_report' = success(detail_report, unit.unit_key)
             /\ idx' = idx + 1
             /\ UNCHANGED <<ipc, outcome, summary>>
    /\ UNCHANGED <<safeVars, pubVars, moreVars, install_path, repo_units, units, destExists, stageExists,
                   live0, destExists0, cleared>>

\* lines 136-138
AfterStage ==
    /\ ipc = "stage"
    /\ idx > Len(units)
    /\ \/ /\ has_errors(detail_report)
          /\ Finish("failure", "failed publishing units")
       \/ /\ ~has_errors(detail_report)
          /\ ipc' = "clear"
          /\ UNCHANGED <<outcome, summary>>
    /\ UNCHANGED <<safeVars, pubVars, moreVars, install_path, repo_units, detail_report, units, idx,
                   destExists, live, stageExists, stage, outside, opened,
                   live0, destExists0, cleared>>

\* _clear_destination_directory that removes nothing
Keep_clear_destination_directory(tree) == tree

\* _clear_destination_directory(destination): every directory of the top
\* level is removed, in the order os.listdir gives
_clear_destination_directory(tree) == [n \in (DOMAIN tree) \ Dirs(tree) |-> tree[n]]

\* lines 141-146: the clear, or an OSError after some of the directories
Clear ==
    /\ ipc = "clear"
    /\ \/ /\ live' = _clear_destination_directory(live)
          /\ cleared' = TRUE
          /\ ipc' = "move"
          /\ UNCHANGED <<outcome, summary>>
       \/ /\ \E gone \in SUBSET Dirs(live) :
                /\ gone /= Dirs(live)
                /\ live' = [n \in (DOMAIN live) \ gone |-> live[n]]
          /\ Finish("failure", "failed to clear destination directory")
          /\ UNCHANGED cleared
    /\ UNCHANGED <<safeVars, pubVars, moreVars, install_path, repo_units, detail_report, units, idx,
                   destExists, stageExists, stage, outside, opened,
                   live0, destExists0>>

\* shutil.move(path, destination) for the directories `moved` of source
MoveDirs(source, dest, moved) == [n \in moved |-> source[n]] @@ dest

\* lines 149-160: _move_to_destination_directory(temporarydestination,
\* destination), then the report.  shutil.move into the existing directory
\* raises shutil.Error when the name is taken there.
Move ==
    /\ ipc = "move"
    /\ LET taken == Dirs(stage) \cap DOMAIN live IN
       \/ \* every directory moved, the source removed
          /\ taken = {}
          /\ live' = MoveDirs(stage, live, Dirs(stage))
          /\ stage' = EmptyDir
          /\ stageExists' = FALSE
          /\ Finish(IF has_errors(detail_report) THEN "failure" ELSE "success",
                    IF has_errors(detail_report) THEN "failed" ELSE "success")
       \/ \* a name is taken in the destination: shutil.Error
          /\ taken /= {}
          /\ \E moved \in SUBSET (Dirs(stage) \ taken) :
                /\ live' = MoveDirs(stage, live, moved)
                /\ stage' = [n \in (DOMAIN stage) \ moved |-> stage[n]]
          /\ Finish("raised", "shutil.Error")
          /\ UNCHANGED stageExists
       \/ \* the filesystem refuses a move: IOError or OSError
          /\ \E moved \in SUBSET (Dirs(stage) \ taken) :
                /\ moved /= Dirs(stage)
                /\ live' = MoveDirs(stage, live, moved)
                /\ stage' = [n \in (DOMAIN stage) \ moved |-> stage[n]]
          /\ Finish("failure", "failed to move temporary destination to destination directory")
          /\ UNCHANGED stageExists
       \/ \* the filesystem refuses shutil.rmtree(source): OSError
          /\ taken = {}
          /\ live' = MoveDirs(stage, live, Dirs(stage))
          /\ stage' = [n \in (DOMAIN stage) \ Dirs(stage) |-> stage[n]]
          /\ Finish("failure", "failed to move temporary destination to destination directory")
          /\ UNCHANGED stageExists
    /\ UNCHANGED <<safeVars, pubVars, moreVars, install_path, repo_units, detail_report, units, idx,
                   destExists, outside, opened, live0, destExists0, cleared>>

NextInstall ==
    \/ Begin \/ CheckUnit \/ Prepare \/ StageUnit \/ AfterStage
    \/ Clear \/ Move

-----------------------------------------------------------------------------
(* The publish run (publish.py): data                                      *)

STATE_RUNNING == "RUNNING"

STATE_SUCCESS == "SUCCESS"

STATE_FAILED == "FAILED"

STATE_SKIPPED == "SKIPPED"

\* PublishProgressReport(conduit) as the run starts.  "" stands for a
\* message or an exception that is not set.
NewProgress ==
    [modules_state          |-> "NOT_STARTED",
     modules_total_count    |-> 0,
     modules_finished_count |-> 0,
     modules_error_count    |-> 0,
     modules_error_message  |-> "",
     modules_exception      |-> "",
     metadata_state         |-> "NOT_STARTED",
     metadata_error_message |-> "",
     metadata_exception     |-> "",
     publish_http           |-> "NOT_STARTED",
     publish_https          |-> "NOT_STARTED"]

\* an add_failed_module that records nothing
Unrecorded_add_failed_module(pr, module) == pr

\* progress_report.add_failed_module(module, traceback)
add_failed_module(pr, module) ==
    [pr EXCEPT !.modules_error_count = @ + 1]

\* progress_report.build_final_report(): the report handed back to the
\* platform carries the progress state as it is at that moment.
build_final_report(pr) == [details |-> pr]

\* the except clause of _modules_step, without its assignments
Silent_modules_failed(pr, e) == pr

\* the except clause of _modules_step
modules_failed(pr, e) ==
    [pr EXCEPT !.modules_state = STATE_FAILED,
               !.modules_error_message = "Error assembling modules",
               !.modules_exception = e]

\* the except clause of _metadata_step, without its assignments
Silent_metadata_failed(pr, e) == pr

\* an except clause of _metadata_step that reports the stage as done
Passing_metadata_failed(pr, e) ==
    [pr EXCEPT !.metadata_state = STATE_SUCCESS]

\* the except clause of _metadata_step
metadata_failed(pr, e) ==
    [pr EXCEPT !.metadata_state = STATE_FAILED,
               !.metadata_error_message = "Error generating repository metadata",
               !.metadata_exception = e]

\* A directory tree of the publish run: the build directory or a published
\* copy.  links: the module links in it, by relative path; metadata: <<>>
\* when the metadata document is not there, else <<the modules it lists>>;
\* depdata: <<>> when the index file is not there, else <<the index>>.
Absent == [exists |-> FALSE, links |-> {}, metadata |-> <<>>, depdata |-> <<>>]

EmptyTree == [exists |-> TRUE, links |-> {}, metadata |-> <<>>, depdata |-> <<>>]

\* module.unit_key['author'][0] of the authors of the model
Initial(author) ==
    CASE author = "al" -> "a"
      [] author = "bo" -> "b"

basename(path) == Last(path)

\* the served relative path of a module: author[0]/author/filename
_build_relative_path(module) ==
    <<Initial(module.unit_key.author), module.unit_key.author,
      basename(module.storage_path)>>

\* os.path.join(base_path, repo.id)
_repo_path == <<"", "puppet", "repo">>

\* the checksum of the stored archive, which is a function of its content
md5(storage_path) == <<"md5", basename(storage_path)>>

\* the document _generate_metadata writes: one entry per module, in order
RepositoryMetadata(ms) == [k \in 1..Len(ms) |-> ms[k].unit_key]

\* gdbm.open(filename, 'c'), which keeps the content of a file found at
\* the path
Keep_gdbm_open(prior) == IF Len(prior) = 0 THEN << >> ELSE prior[1]

\* gdbm.open(filename, 'n'): always a new, empty database, whatever was at
\* the path
gdbm_open(prior) == << >>

\* the loop of _generate_dependency_data that puts each record in front of
\* the ones already stored under its key
RECURSIVE Prepend_generate_dependency_data(_, _)
Prepend_generate_dependency_data(db, ms) ==
    IF ms = <<>> THEN db
    ELSE LET module      == Head(ms)
             value       == [file         |-> join(_repo_path,
                                                   _build_relative_path(module)),
                             version      |-> module.unit_key.version,
                             dependencies |-> module.metadata.dependencies,
                             file_md5     |-> md5(module.storage_path)]
             key         == module.unit_key.author \o "/" \o module.unit_key.name
             module_list == IF key \in DOMAIN db THEN db[key] ELSE <<>>
         IN  Prepend_generate_dependency_data(
                 (key :> (<<value>> \o module_list)) @@ db, Tail(ms))

\* the loop of _generate_dependency_data over a database db, a function from
\* the key 'author/name' to the list stored under it
RECURSIVE _generate_dependency_data(_, _)
_generate_dependency_data(db, ms) ==
    IF ms = <<>> THEN db
    ELSE LET module      == Head(ms)
             value       == [file         |-> join(_repo_path,
                                                   _build_relative_path(module)),
                             version      |-> module.unit_key.version,
                             dependencies |-> module.metadata.dependencies,
                             file_md5     |-> md5(module.storage_path)]
             key         == module.unit_key.author \o "/" \o module.unit_key.name
             module_list == IF key \in DOMAIN db THEN db[key] ELSE <<>>
         IN  _generate_dependency_data(
                 (key :> Append(module_list, value)) @@ db, Tail(ms))

\* unpublish(protocol_directory, repo) that removes nothing
Keep_unpublish(tree) == tree

\* unpublish(protocol_directory, repo): the published copy is removed
unpublish(tree) == Absent

\* a copytree that makes the directory and copies nothing into it
Bare_copytree(src, dst) == EmptyTree

\* shutil.copytree(build_dir, repo_dest_dir, symlinks=True), which needs a
\* destination that does not exist: what the destination holds afterwards
copytree(src, dst) == src

\* one protocol of _copy_to_published that copies over what is there
Overlay_publish_protocol(existing, build_tree, should_serve) ==
    IF should_serve
    THEN [build_tree EXCEPT !.links = @ \cup existing.links]
    ELSE existing

\* one protocol of _copy_to_published: what the protocol's location holds
\* afterwards
publish_protocol(existing, build_tree, should_serve) ==
    LET removed == unpublish(existing)
    IN  IF should_serve THEN copytree(build_tree, removed) ELSE removed

\* ---- inputs
MaxModules == 2

MaxRuns == 2

PModule(author, name, version, file) ==
    [unit_key     |-> [author |-> author, name |-> name, version |-> version],
     metadata     |-> [dependencies |-> <<>>],
     storage_path |-> <<"", "content", file>>]

PModules ==
    {PModule("al", "x", "2", "al-x-2.tar.gz"),
     PModule("bo", "y", "1", "bo-y-1.tar.gz")}

\* the lists get_units can return: distinct modules, in any order
ModuleLists ==
    UNION {{s \in [1..n -> PModules] :
               \A i, j \in 1..n : i /= j => s[i] /= s[j]} : n \in 0..MaxModules}

-----------------------------------------------------------------------------
(* The publish run (publish.py): perform_publish                           *)

IdlePublish ==
    /\ config = [serve_http |-> FALSE, serve_https |-> FALSE]
    /\ repo_modules = <<>>
    /\ progress_report = NewProgress
    /\ snapshot = NewProgress
    /\ updates = 0
    /\ ppc = "idle"
    /\ modules = <<>>
    /\ mi = 0
    /\ exc = [stage |-> "", e |-> ""]
    /\ build = Absent
    /\ pub = [http |-> Absent, https |-> Absent]
    /\ final_report = build_final_report(NewProgress)
    /\ run = 0
    /\ prev_ok = FALSE
    /\ pub0 = [http |-> Absent, https |-> Absent]
    /\ built = Absent

\* progress_report.update_progress() once the report has become pr
Update(pr) ==
    /\ progress_report' = pr
    /\ snapshot' = pr
    /\ updates' = updates + 1

\* an operation of the stage raises e: control goes to the except clause
Raise(step, e) ==
    /\ exc' = [stage |-> step, e |-> e]
    /\ ppc' = IF step = "modules" THEN "modules_except" ELSE "metadata_except"

\* PuppetModulePublishRun(repo, conduit, config, is_cancelled_call) and the
\* entry of perform_publish, for the repository as it is now and the
\* configuration of this run
NewRun ==
    /\ ppc \in {"idle", "returned"}
    /\ run < MaxRuns
    /\ \E sh \in BOOLEAN, ss \in BOOLEAN :
          config' = [serve_http |-> sh, serve_https |-> ss]
    /\ repo_modules' \in ModuleLists
    /\ progress_report' = NewProgress
    /\ snapshot' = NewProgress
    /\ updates' = 0
    /\ ppc' = "modules"
    /\ modules' = <<>>
    /\ mi' = 0
    /\ exc' = [stage |-> "", e |-> ""]
    /\ final_report' = build_final_report(NewProgress)
    /\ run' = run + 1
    /\ prev_ok' = (ppc = "returned"
                   /\ progress_report.metadata_state = STATE_SUCCESS)
    /\ pub0' = pub
    /\ built' = Absent
    /\ UNCHANGED <<build, pub>>
    /\ UNCHANGED <<safeVars, instVars, moreVars>>

\* _modules_step up to its try block
ModulesStart ==
    /\ ppc = "modules"
    /\ progress_report' = [progress_report EXCEPT !.modules_state = STATE_RUNNING]
    /\ ppc' = "init_build"
    /\ UNCHANGED <<config, repo_modules, snapshot, updates, modules, mi, exc,
                   build, pub, final_report, run, prev_ok, pub0, built>>
    /\ UNCHANGED <<safeVars, instVars, moreVars>>

\* an _init_build_dir that keeps a build directory that is there
Keep_init_build_dir(tree) == IF tree.exists THEN tree ELSE EmptyTree

\* the build directory after _init_build_dir returned: whatever was there
\* is removed by rmtree, and makedirs makes an empty directory
_init_build_dir(tree) == EmptyTree

\* _init_build_dir: rmtree of a build directory that is there, then makedirs
InitBuildDir ==
    /\ ppc = "init_build"
    /\ \/ /\ build' = _init_build_dir(build)
          /\ ppc' = "retrieve"
          /\ UNCHANGED exc
       \/ /\ build.exists
          /\ UNCHANGED build
          /\ Raise("modules", "OSError")
       \/ /\ build' = Absent
          /\ Raise("modules", "OSError")
    /\ UNCHANGED <<config, repo_modules, progress_report, snapshot, updates,
                   modules, mi, pub, final_report, run, prev_ok, pub0, built>>
    /\ UNCHANGED <<safeVars, instVars, moreVars>>

\* _retrieve_repo_modules: publish_conduit.get_units
RetrieveRepoModules ==
    /\ ppc = "retrieve"
    /\ \/ /\ modules' = repo_modules
          /\ ppc' = "symlink"
          /\ UNCHANGED exc
       \/ /\ UNCHANGED modules
          /\ Raise("modules", "Exception")
    /\ UNCHANGED <<config, repo_modules, progress_report, snapshot, updates,
                   mi, build, pub, final_report, run, prev_ok, pub0, built>>
    /\ UNCHANGED <<safeVars, instVars, moreVars>>

\* _symlink_modules up to its loop
SymlinkStart ==
    /\ ppc = "symlink"
    /\ Update([progress_report EXCEPT !.modules_total_count = Len(modules),
                                      !.modules_finished_count = 0,
                                      !.modules_error_count = 0])
    /\ mi' = 1
    /\ ppc' = "link"
    /\ UNCHANGED <<config, repo_modules, modules, exc, build, pub,
                   final_report, run, prev_ok, pub0, built>>
    /\ UNCHANGED <<safeVars, instVars, moreVars>>

\* one turn of the loop of _symlink_modules: the link is made, or the
\* exception of makedirs or symlink is recorded for the module
SymlinkModule ==
    /\ ppc = "link"
    /\ mi <= Len(modules)
    /\ LET module == modules[mi]
           symlink_path == _build_relative_path(module)
       IN  \/ /\ symlink_path \notin build.links
              /\ build' = [build EXCEPT !.links = @ \cup {symlink_path}]
              /\ Update([progress_report EXCEPT
                             !.modules_finished_count = @ + 1])
           \/ /\ UNCHANGED build
              /\ Update(add_failed_module(progress_report, module))
    /\ mi' = mi + 1
    /\ UNCHANGED <<config, repo_modules, ppc, modules, exc, pub,
                   final_report, run, prev_ok, pub0, built>>
    /\ UNCHANGED <<safeVars, instVars, moreVars>>

\* _modules_step after its try block: the stage succeeded and returns the
\* modules, so that perform_publish goes on to _metadata_step
ModulesEnd ==
    /\ ppc = "link"
    /\ mi > Len(modules)
    /\ Update([progress_report EXCEPT !.modules_state = STATE_SUCCESS])
    /\ ppc' = "metadata"
    /\ UNCHANGED <<config, repo_modules, modules, mi, exc, build, pub,
                   final_report, run, prev_ok, pub0, built>>
    /\ UNCHANGED <<safeVars, instVars, moreVars>>

\* the except clause of _modules_step: it returns None, so that
\* perform_publish skips _metadata_step
ModulesExcept ==
    /\ ppc = "modules_except"
    /\ Update(modules_failed(progress_report, exc.e))
    /\ ppc' = "finally"
    /\ UNCHANGED <<config, repo_modules, modules, mi, exc, build, pub,
                   final_report, run, prev_ok, pub0, built>>
    /\ UNCHANGED <<safeVars, instVars, moreVars>>

\* _metadata_step up to its try block
MetadataStart ==
    /\ ppc = "metadata"
    /\ Update([progress_report EXCEPT !.metadata_state = STATE_RUNNING])
    /\ ppc' = "generate_metadata"
    /\ UNCHANGED <<config, repo_modules, modules, mi, exc, build, pub,
                   final_report, run, prev_ok, pub0, built>>
    /\ UNCHANGED <<safeVars, instVars, moreVars>>

\* _generate_metadata: the document is written, or building or writing it
\* raises (an empty file may be left)
GenerateMetadata ==
    /\ ppc = "generate_metadata"
    /\ \/ /\ build' = [build EXCEPT !.metadata = <<RepositoryMetadata(modules)>>]
          /\ ppc' = "generate_dependency_data"
          /\ UNCHANGED exc
       \/ /\ UNCHANGED build
          /\ Raise("metadata", "IOError")
    /\ UNCHANGED <<config, repo_modules, progress_report, snapshot, updates,
                   modules, mi, pub, final_report, run, prev_ok, pub0, built>>
    /\ UNCHANGED <<safeVars, instVars, moreVars>>

\* _generate_dependency_data: the index is written for all modules, or
\* gdbm.open raises, or reading the archive of module k raises after the
\* records of the modules before it were stored
GenerateDependencyData ==
    /\ ppc = "generate_dependency_data"
    /\ \/ /\ build' = [build EXCEPT
                          !.depdata = <<_generate_dependency_data(<<>>, modules)>>]
          /\ ppc' = "copy_http"
          /\ UNCHANGED exc
       \/ /\ UNCHANGED build
          /\ Raise("metadata", "gdbm.error")
       \/ /\ \E k \in 1..Len(modules) :
                build' = [build EXCEPT !.depdata =
                    <<_generate_dependency_data(<<>>, SubSeq(modules, 1, k - 1))>>]
          /\ Raise("metadata", "IOError")
    /\ UNCHANGED <<config, repo_modules, progress_report, snapshot, updates,
                   modules, mi, pub, final_report, run, prev_ok, pub0, built>>
    /\ UNCHANGED <<safeVars, instVars, moreVars>>

\* one protocol of _copy_to_published: the published copy at the protocol's
\* location is removed, the build directory is copied there when the
\* protocol serves the repository, and the protocol's state is reported.
\* rmtree may raise with the copy still there; copytree raises when its
\* destination exists, and may raise with only the directory made.
CopyProtocol(proto, should_serve, state_field, next) ==
    LET removed == unpublish(pub[proto])
    IN  \/ /\ should_serve => ~removed.exists
           /\ pub' = [pub EXCEPT
                         ![proto] = publish_protocol(@, build, should_serve)]
           /\ Update([progress_report EXCEPT ![state_field] =
                         IF should_serve THEN STATE_SUCCESS ELSE STATE_SKIPPED])
           /\ ppc' = next
           /\ UNCHANGED exc
        \/ /\ pub[proto].exists
           /\ UNCHANGED <<pub, progress_report, snapshot, updates>>
           /\ Raise("metadata", "OSError")
        \/ /\ should_serve
           /\ pub' = [pub EXCEPT ![proto] =
                         IF removed.exists THEN removed ELSE EmptyTree]
           /\ UNCHANGED <<progress_report, snapshot, updates>>
           /\ Raise("metadata", "OSError")

\* _copy_to_published, HTTP
CopyHTTP ==
    /\ ppc = "copy_http"
    /\ built' = build
    /\ CopyProtocol("http", config.serve_http, "publish_http", "copy_https")
    /\ UNCHANGED <<config, repo_modules, modules, mi, build, final_report,
                   run, prev_ok, pub0>>
    /\ UNCHANGED <<safeVars, instVars, moreVars>>

\* _copy_to_published, HTTPS
CopyHTTPS ==
    /\ ppc = "copy_https"
    /\ CopyProtocol("https", config.serve_https, "publish_https", "cleanup")
    /\ UNCHANGED <<config, repo_modules, modules, mi, build, final_report,
                   run, prev_ok, pub0, built>>
    /\ UNCHANGED <<safeVars, instVars, moreVars>>

\* a _cleanup_build_dir that leaves the build directory
Keep_cleanup_build_dir(tree) == tree

\* the build directory after _cleanup_build_dir returned
_cleanup_build_dir(tree) == Absent

\* _cleanup_build_dir: rmtree of the build directory
CleanupBuildDir ==
    /\ ppc = "cleanup"
    /\ \/ /\ build' = _cleanup_build_dir(build)
          /\ ppc' = "metadata_end"
          /\ UNCHANGED exc
       \/ /\ UNCHANGED build
          /\ Raise("metadata", "OSError")
    /\ UNCHANGED <<config, repo_modules, progress_report, snapshot, updates,
                   modules, mi, pub, final_report, run, prev_ok, pub0, built>>
    /\ UNCHANGED <<safeVars, instVars, moreVars>>

\* _metadata_step after its try block
MetadataEnd ==
    /\ ppc = "metadata_end"
    /\ Update([progress_report EXCEPT !.metadata_state = STATE_SUCCESS])
    /\ ppc' = "finally"
    /\ UNCHANGED <<config, repo_modules, modules, mi, exc, build, pub,
                   final_report, run, prev_ok, pub0, built>>
    /\ UNCHANGED <<safeVars, instVars, moreVars>>

\* the except clause of _metadata_step
MetadataExcept ==
    /\ ppc = "metadata_except"
    /\ Update(metadata_failed(progress_report, exc.e))
    /\ ppc' = "finally"
    /\ UNCHANGED <<config, repo_modules, modules, mi, exc, build, pub,
                   final_report, run, prev_ok, pub0, built>>
    /\ UNCHANGED <<safeVars, instVars, moreVars>>

\* the finally block of perform_publish: one more update, and the return of
\* the final report
Finally ==
    /\ ppc = "finally"
    /\ Update(progress_report)
    /\ final_report' = build_final_report(progress_report)
    /\ ppc' = "returned"
    /\ UNCHANGED <<config, repo_modules, modules, mi, exc, build, pub,
                   run, prev_ok, pub0, built>>
    /\ UNCHANGED <<safeVars, instVars, moreVars>>

NextPublish ==
    \/ NewRun
    \/ ModulesStart
    \/ InitBuildDir
    \/ RetrieveRepoModules
    \/ SymlinkStart
    \/ SymlinkModule
    \/ ModulesEnd
    \/ ModulesExcept
    \/ MetadataStart
    \/ GenerateMetadata
    \/ GenerateDependencyData
    \/ CopyHTTP
    \/ CopyHTTPS
    \/ CleanupBuildDir
    \/ MetadataEnd
    \/ MetadataExcept
    \/ Finally

-----------------------------------------------------------------------------
(* The publish run: properties                                             *)

Returned == ppc = "returned"

\* C8: perform_publish never raises.  Whenever it returns, one final
\* progress update was emitted with the report as it stands and the final
\* report built from it is returned; and when an operation of the MODULES
\* (METADATA) stage raised, that stage's state is FAILED, with an error
\* message and the exception that was raised.
C8_PerformPublishNeverRaises ==
    [][(ppc = "finally" /\ ppc' /= ppc) =>
          /\ ppc' = "returned"
          /\ updates' = updates + 1
          /\ snapshot' = progress_report'
          /\ final_report' = build_final_report(progress_report')
          /\ exc'.stage = "modules" =>
                /\ progress_report'.modules_state = STATE_FAILED
                /\ progress_report'.modules_error_message /= ""
                /\ progress_report'.modules_exception = exc'.e
          /\ exc'.stage = "metadata" =>
                /\ progress_report'.metadata_state = STATE_FAILED
                /\ progress_report'.metadata_error_message /= ""
                /\ progress_report'.metadata_exception = exc'.e]_vars

\* a run returned after an exception of each kind of stage
C8_Witness ==
    /\ Returned
    /\ exc.stage = "metadata"
    /\ exc.e = "IOError"
    /\ progress_report.modules_state = STATE_SUCCESS
    /\ progress_report.metadata_state = STATE_FAILED
    /\ build.exists

\* the tree holds nothing but what the modules of this run give
OfThisRun(tree) ==
    /\ tree.links \subseteq {_build_relative_path(modules[k]) : k \in 1..Len(modules)}
    /\ tree.metadata = <<RepositoryMetadata(modules)>>
    /\ tree.depdata = <<_generate_dependency_data(<<>>, modules)>>

\* C9: after two successful publishes in a row, each protocol location that
\* serves the repository holds exactly the tree the second publish built,
\* and nothing that only the first publish had.
C9_SecondPublishReplacesFirst ==
    (Returned /\ prev_ok /\ progress_report.metadata_state = STATE_SUCCESS) =>
        /\ OfThisRun(built)
        /\ config.serve_http => pub.http = built
        /\ config.serve_https => pub.https = built

\* the second publish replaced a different tree published by the first
C9_Witness ==
    /\ Returned /\ prev_ok /\ progress_report.metadata_state = STATE_SUCCESS
    /\ config.serve_http /\ config.serve_https
    /\ pub0.http.exists /\ pub0.https.exists
    /\ pub0.http.links /= {}
    /\ ~(pub0.http.links \subseteq built.links)
    /\ pub.http = built

\* C10: after a publish whose METADATA stage succeeded, a published copy
\* exists at a protocol's location exactly when the protocol serves the
\* repository, and the protocol's state is SUCCESS when it serves and
\* SKIPPED when it does not.
C10_PublishedIffServed ==
    (Returned /\ progress_report.metadata_state = STATE_SUCCESS) =>
        /\ pub.http.exists <=> config.serve_http
        /\ pub.https.exists <=> config.serve_https
        /\ progress_report.publish_http =
              IF config.serve_http THEN STATE_SUCCESS ELSE STATE_SKIPPED
        /\ progress_report.publish_https =
              IF config.serve_https THEN STATE_SUCCESS ELSE STATE_SKIPPED

\* a copy of an earlier publish was removed from a protocol that no longer
\* serves, while the other protocol was published
C10_Witness ==
    /\ Returned /\ progress_report.metadata_state = STATE_SUCCESS
    /\ pub0.http.exists /\ ~config.serve_http /\ ~pub.http.exists
    /\ config.serve_https /\ pub.https.exists

\* C23: the METADATA stage starts only after the MODULES stage ended in
\* SUCCESS.  When an operation of the MODULES stage raised, the run goes on
\* to its end with modules_state FAILED, metadata_state is never anything
\* but NOT_STARTED, no metadata document and no index is written to the
\* build directory, and both protocol locations stay as they were when the
\* run started.
C23_MetadataOnlyAfterModulesSuccess ==
    [][ /\ progress_report'.metadata_state /= "NOT_STARTED" =>
              progress_report'.modules_state = STATE_SUCCESS
        /\ exc'.stage = "modules" =>
              /\ progress_report'.metadata_state = "NOT_STARTED"
              /\ ppc' \in {"modules_except", "finally", "returned"}
              /\ ppc' \in {"finally", "returned"} =>
                    progress_report'.modules_state = STATE_FAILED
              /\ build'.metadata \in {<<>>, build.metadata}
              /\ build'.depdata \in {<<>>, build.depdata}
              /\ pub' = pub0' ]_vars

\* a second run returned after its MODULES stage raised, with published
\* copies of the first run in place
C23_Witness ==
    /\ Returned
    /\ exc.stage = "modules"
    /\ progress_report.modules_state = STATE_FAILED
    /\ progress_report.metadata_state = "NOT_STARTED"
    /\ pub0.http.exists
    /\ pub0.http.metadata /= <<>>
    /\ pub = pub0

\* C24: in the loop of _symlink_modules every module is attempted once, in
\* order: either its link is made and modules_finished_count goes up by
\* one, or the failure is recorded for the module and nothing else changes.
\* The loop always goes on to the next module, and after the last one the
\* MODULES stage ends in SUCCESS and the METADATA stage is entered, with
\* modules_finished_count the number of links in the build directory and
\* every module counted as finished or as failed, however many links failed.
C24_LinkFailureDoesNotStopTheLoop ==
    [][ ppc = "link" =>
          /\ mi <= Len(modules) =>
                /\ ppc' = "link"
                /\ mi' = mi + 1
                /\ \/ /\ build'.links =
                             build.links \cup {_build_relative_path(modules[mi])}
                      /\ build'.links /= build.links
                      /\ progress_report'.modules_finished_count =
                             progress_report.modules_finished_count + 1
                      /\ progress_report'.modules_error_count =
                             progress_report.modules_error_count
                   \/ /\ build' = build
                      /\ progress_report'.modules_finished_count =
                             progress_report.modules_finished_count
                      /\ progress_report'.modules_error_count =
                             progress_report.modules_error_count + 1
          /\ mi > Len(modules) =>
                /\ ppc' = "metadata"
                /\ progress_report'.modules_state = STATE_SUCCESS
                /\ progress_report'.modules_finished_count =
                       Cardinality(build'.links)
                /\ progress_report'.modules_finished_count
                       + progress_report'.modules_error_count = Len(modules) ]_vars

\* a run whose links all failed, and whose METADATA stage succeeded
C24_Witness ==
    /\ Returned
    /\ Len(modules) = MaxModules
    /\ progress_report.modules_error_count = Len(modules)
    /\ progress_report.modules_finished_count = 0
    /\ progress_report.modules_state = STATE_SUCCESS
    /\ progress_report.metadata_state = STATE_SUCCESS

\* C25: a protocol location changes only in _copy_to_published, when the
\* build directory holds the metadata document and the whole dependency
\* index of the modules of the run.  When the METADATA stage raised before
\* _copy_to_published was reached (in _generate_metadata or in
\* _generate_dependency_data), both protocol locations are as they were
\* when the run started, and the run ends with metadata_state FAILED.
C25_PublishedOnlyAfterMetadataAndIndex ==
    [][ /\ pub' /= pub =>
              /\ ppc \in {"copy_http", "copy_https"}
              /\ build.metadata = <<RepositoryMetadata(modules)>>
              /\ build.depdata = <<_generate_dependency_data(<<>>, modules)>>
        /\ (exc'.stage = "metadata" /\ ~built'.exists) =>
              /\ pub' = pub0'
              /\ ppc' \in {"metadata_except", "finally", "returned"}
              /\ ppc' \in {"finally", "returned"} =>
                    progress_report'.metadata_state = STATE_FAILED ]_vars

\* a second run returned after its index generation raised with a part of
\* the index written, with published copies of the first run in place
C25_Witness ==
    /\ Returned
    /\ exc.stage = "metadata"
    /\ ~built.exists
    /\ build.metadata /= <<>>
    /\ build.depdata /= <<>>
    /\ progress_report.metadata_state = STATE_FAILED
    /\ pub0.http.exists /\ pub0.https.exists
    /\ pub = pub0

\* C28: whatever was in the build directory when the run started, from
\* _init_build_dir until the first link is made the build directory exists
\* and is empty, and when the build directory is copied to the protocol
\* locations it holds nothing but the links, the metadata document and the
\* index of the modules of this run.
C28_BuildDirectoryFresh ==
    /\ ppc \in {"retrieve", "symlink"} => build = EmptyTree
    /\ (ppc = "link" /\ mi = 1) => build = EmptyTree
    /\ ppc \in {"copy_http", "copy_https"} => OfThisRun(build)

\* linking is about to start in a second run, after a first run that
\* published over HTTP, failed after that and so left its build directory,
\* links and all
C28_Witness ==
    /\ ppc = "symlink"
    /\ run = MaxRuns
    /\ ~prev_ok
    /\ pub0.http.exists
    /\ pub0.http.links /= {}
    /\ build = EmptyTree

\* C34: modules_state and metadata_state become SUCCESS or FAILED only from
\* RUNNING; and at the return of perform_publish modules_state is SUCCESS
\* or FAILED, metadata_state is NOT_STARTED, SUCCESS or FAILED, and when
\* metadata_state is SUCCESS then modules_state is SUCCESS, publish_http
\* and publish_https are each SUCCESS or SKIPPED and the build directory is
\* not there.
C34_StatesConsistentAtReturn ==
    [][ /\ (progress_report'.modules_state /= progress_report.modules_state
            /\ progress_report'.modules_state \in {STATE_SUCCESS, STATE_FAILED})
              => progress_report.modules_state = STATE_RUNNING
        /\ (progress_report'.metadata_state /= progress_report.metadata_state
            /\ progress_report'.metadata_state \in {STATE_SUCCESS, STATE_FAILED})
              => progress_report.metadata_state = STATE_RUNNING
        /\ ppc' = "returned" =>
              /\ progress_report'.modules_state \in {STATE_SUCCESS, STATE_FAILED}
              /\ progress_report'.metadata_state \in
                     {"NOT_STARTED", STATE_SUCCESS, STATE_FAILED}
              /\ progress_report'.metadata_state = STATE_SUCCESS =>
                    /\ progress_report'.modules_state = STATE_SUCCESS
                    /\ progress_report'.publish_http \in
                           {STATE_SUCCESS, STATE_SKIPPED}
                    /\ progress_report'.publish_https \in
                           {STATE_SUCCESS, STATE_SKIPPED}
                    /\ ~build'.exists ]_vars

\* a second run has returned with both stages in SUCCESS, one protocol
\* skipped and one served, after a first run that published over HTTP,
\* failed after that and left its build directory
C34_Witness ==
    /\ Returned
    /\ run = MaxRuns
    /\ ~prev_ok
    /\ pub0.http.exists
    /\ progress_report.modules_state = STATE_SUCCESS
    /\ progress_report.metadata_state = STATE_SUCCESS
    /\ progress_report.publish_http = STATE_SKIPPED
    /\ progress_report.publish_https = STATE_SUCCESS
    /\ ~build.exists

\* the METADATA stage raised in the HTTPS step of _copy_to_published: the
\* HTTP step has reported its state, the HTTPS step has not
HttpsStepRaised ==
    /\ exc.stage = "metadata"
    /\ progress_report.publish_http /= "NOT_STARTED"
    /\ progress_report.publish_https = "NOT_STARTED"

\* C35: when the HTTPS step of _copy_to_published raised after the HTTP
\* step completed, nothing of the HTTP step is undone: publish_http is
\* SUCCESS when HTTP serves the repository and SKIPPED when it does not, the
\* HTTP location holds the tree this run built when HTTP serves and nothing
\* when it does not, the build directory is still there as it was built,
\* and the run returns with metadata_state FAILED.
C35_NoRollbackAfterHttpsFailure ==
    HttpsStepRaised =>
        /\ progress_report.publish_http =
              IF config.serve_http THEN STATE_SUCCESS ELSE STATE_SKIPPED
        /\ config.serve_http => (pub.http = built /\ OfThisRun(built))
        /\ ~config.serve_http => ~pub.http.exists
        /\ build.exists
        /\ build = built
        /\ ppc \in {"metadata_except", "finally", "returned"}
        /\ ppc \in {"finally", "returned"} =>
              progress_report.metadata_state = STATE_FAILED

\* a second run, which serves over HTTP, has returned after its HTTPS step
\* raised: the HTTP copy of the first run has been replaced
C35_Witness ==
    /\ Returned
    /\ HttpsStepRaised
    /\ config.serve_http
    /\ pub0.http.exists
    /\ pub0.http /= built
    /\ pub.http = built
    /\ pub.https = pub0.https
    /\ pub0.https.exists
    /\ progress_report.metadata_state = STATE_FAILED

-----------------------------------------------------------------------------
(* The install distributor: properties                                     *)

Done == ipc = "done"

UnitIds == 1..Len(units)

KeyOf(i) == units[i].unit_key

NameOf(i) == units[i].unit_key.name

\* the errors of the detail report for a unit key, and those with a message
ErrorsFor(key) == {k \in 1..Len(detail_report.errors) : detail_report.errors[k][1] = key}

HasErrorMsg(key, msg) ==
    \E k \in ErrorsFor(key) : detail_report.errors[k][2] = msg

\* An entry whose normalised join with the destination is not below it
EntryOutside(destination, name) ==
    ~Under(normpath(destination), normpath(join(destination, name)))

\* the units whose archive opens and holds such an entry
UnsafeUnits ==
    {i \in UnitIds :
        /\ units[i].archive.open = "ok"
        /\ \E k \in 1..Len(units[i].archive.members) :
              EntryOutside(install_path, units[i].archive.members[k].name)}

SharedName(i) == \E j \in UnitIds : j /= i /\ NameOf(j) = NameOf(i)

\* nothing extracted, and no directory created, moved or deleted
FsUntouched ==
    /\ live = live0
    /\ destExists = destExists0
    /\ ~stageExists
    /\ stage = EmptyDir
    /\ outside = {}

C3_DuplicateNamesRejected ==
    (Done /\ \E i \in UnitIds : SharedName(i)) =>
        /\ \A i \in UnitIds :
              IF SharedName(i)
              THEN /\ Cardinality(ErrorsFor(KeyOf(i))) = 1
                   /\ HasErrorMsg(KeyOf(i), "another unit in this repo also has this name")
              ELSE ErrorsFor(KeyOf(i)) = {}
        /\ Len(detail_report.errors) = Cardinality({i \in UnitIds : SharedName(i)})
        /\ detail_report.success_unit_keys = <<>>
        /\ outcome = "failure"
        /\ summary = "duplicate unit names"
        /\ opened = {}
        /\ FsUntouched

\* C3 witness: two units of different authors and versions share a name, a
\* third unit has a name of its own, and the run has ended
C3_Witness ==
    /\ Done
    /\ Len(units) = 3
    /\ \E i, j, k \in UnitIds :
          /\ i /= j
          /\ NameOf(i) = NameOf(j)
          /\ KeyOf(i).author /= KeyOf(j).author
          /\ ~SharedName(k)
    /\ Len(detail_report.errors) = 2

\* A module-shaped archive: a top-level directory and entries below it
ModuleShaped(archive) ==
    /\ archive.open = "ok"
    /\ archive.members /= <<>>
    /\ \E t \in {archive.members[k].name[1] : k \in 1..Len(archive.members)} :
          /\ t \notin {"", ".", ".."}
          /\ \A k \in 1..Len(archive.members) :
                LET m == archive.members[k] IN
                /\ normpath(m.name)[1] = t
                /\ (Len(normpath(m.name)) = 1 => m.isdir)

\* C4 as claimed: after a run that returned a success report, the
\* destination has, for every unit, a directory named by the unit's name
\* that holds the unit's extracted content, whatever the top-level
\* directory of its archive is called and whatever the order of the units.
C4_EveryUnitInstalledUnderItsName ==
    (Done /\ outcome = "success"
          /\ \A i \in UnitIds : ModuleShaped(units[i].archive)) =>
        \A i \in UnitIds :
            /\ NameOf(i) \in Dirs(live)
            /\ KeyOf(i) \in live[NameOf(i)].c

\* a unit failed in STAGE: its extraction or its rename raised (an error
\* recorded while the staging directory exists, or an exception that left
\* the loop)
StageFailed ==
    /\ stageExists
    /\ \/ \E i \in UnitIds : \E k \in ErrorsFor(KeyOf(i)) :
             detail_report.errors[k][2] \in {"IOError", "OSError", "ValueError"}
       \/ (outcome = "raised" /\ summary = "shutil.Error" /\ ~cleared)

\* C5 as claimed: when the extraction or the rename of a unit failed in
\* STAGE, the destination is not cleared, it holds what it held before the
\* run, and a failure report is returned.
C5_StageFailureLeavesDestination ==
    (Done /\ StageFailed) =>
        /\ ~cleared
        /\ live = live0
        /\ outcome = "failure"

\* C6: the destination is cleared before anything is moved into it, and a
\* commit that ends in the success report leaves in the destination exactly
\* the directories staging held, as staging held them, and no staging
\* directory.
C6_CommitIsFullReplace ==
    [][ /\ (ipc = "move" => cleared)
        /\ (ipc = "move" /\ outcome' = "success") =>
              /\ Dirs(live') = Dirs(stage)
              /\ \A n \in Dirs(stage) : live'[n] = stage[n]
              /\ \A n \in Dirs(live') : Old \notin live'[n].c
              /\ ~stageExists' ]_vars

\* C6 witness: a successful run replaced a destination that held a
\* directory the run did not install
C6_Witness ==
    /\ Done
    /\ outcome = "success"
    /\ "o" \in Dirs(live0)
    /\ "o" \notin DOMAIN live
    /\ "x" \in Dirs(live0)
    /\ "x" \in Dirs(live)

\* C7 as claimed: publish_repo returns a report, it never raises
C7_PublishRepoNeverRaises == outcome /= "raised"

\* C33: when the install path is missing or empty, publish_repo returns
\* the failure report 'install path not provided' at once: no unit is
\* enumerated, no archive is opened, no directory is made, nothing on the
\* filesystem changes and the detail report gets no entry.
C33_NoInstallPathFailsBeforeIO ==
    [][ (ipc = "idle" /\ install_path \in {None, EmptyString} /\ ipc' /= ipc) =>
          /\ ipc' = "done"
          /\ outcome' = "failure"
          /\ summary' = "install path not provided"
          /\ units' = units
          /\ opened' = opened
          /\ detail_report' = detail_report
          /\ destExists' = destExists
          /\ stageExists' = stageExists
          /\ <<live, stage, outside>>' = <<live, stage, outside>> ]_vars

\* a run with an empty install path, for a repository that has units and a
\* destination that is not there, has returned
C33_Witness ==
    /\ Done
    /\ install_path = EmptyString
    /\ repo_units /= << >>
    /\ outcome = "failure"
    /\ summary = "install path not provided"
    /\ units = << >>
    /\ opened = {}
    /\ ~destExists
    /\ ~stageExists

\* C21 as claimed: a turn of the STAGE loop writes under the staging
\* directory only, so the destination and everything else outside staging
\* is as it was before the turn, and the destination changes only in
\* COMMIT (the clear and the move).
C21_StageWritesOnlyStaging ==
    [][ /\ ipc = "stage" => (live' = live /\ outside' = outside)
        /\ live' /= live => ipc \in {"clear", "move"} ]_vars

-----------------------------------------------------------------------------
(* SpecSafe: _archive_paths_are_safe applied to bounded inputs             *)

MaxNames == 2

\* Destinations: absolute and normalised, with and without a trailing
\* separator, the root, absolute but not normalised, and relative.
Destinations ==
    { <<"", "srv", "d">>,            \* /srv/d
      <<"", "srv", "d", "">>,        \* /srv/d/
      <<"", "">>,                    \* /
      <<"", "d">>,                   \* /d
      <<"", "srv", "d", "", "">>,    \* /srv/d//
      <<"", "srv", "", "d">>,        \* /srv//d
      <<"", "srv", ".", "d">>,       \* /srv/./d
      <<"", "srv", "..", "d">>,      \* /srv/../d
      <<"srv", "d">> }               \* srv/d  (relative)

\* Entry names of archives.
EntryNames ==
    { <<"m">>,                            \* m
      <<"m", "f">>,                       \* m/f
      <<"m", "">>,                        \* m/
      <<"m", "lib", "..", "f">>,          \* m/lib/../f
      <<"m", "..">>,                      \* m/..
      <<"..", "e">>,                      \* ../e
      <<"m", "..", "..", "e">>,           \* m/../../e
      <<"..", "d", "m", "f">>,            \* ../d/m/f
      <<"", "etc", "e">>,                 \* /etc/e
      <<"", "srv", "d", "m", "f">> }      \* /srv/d/m/f

InitSafe ==
    /\ sDest \in Destinations
    /\ sNames = <<>>
    /\ sCalled = FALSE
    /\ sResult = FALSE
    /\ IdleInstall
    /\ IdlePublish
    /\ IdleMore

\* one more entry in the archive under test
AddName ==
    /\ ~sCalled
    /\ Len(sNames) < MaxNames
    /\ \E n \in EntryNames : sNames' = Append(sNames, n)
    /\ UNCHANGED <<sDest, sCalled, sResult, instVars, pubVars, moreVars>>

\* the call _archive_paths_are_safe(sDest, archive)
CallSafe ==
    /\ ~sCalled
    /\ sCalled' = TRUE
    /\ sResult' = _archive_paths_are_safe(sDest, sNames)
    /\ UNCHANGED <<sDest, sNames, instVars, pubVars, moreVars>>

NextSafe == AddName \/ CallSafe

SpecSafe == InitSafe /\ [][NextSafe]_vars

\* every entry lies under the archive's own top-level directory
UnderOwnTop(names) ==
    \E t \in {names[k][1] : k \in 1..Len(names)} \cup {"m"} :
        /\ t \notin {"", ".", ".."}
        /\ \A k \in 1..Len(names) :
              ~IsAbs(names[k]) /\ normpath(names[k])[1] = t

\* C2 as claimed: the call returns true for every absolute destination and
\* every archive whose entries all lie under the archive's own top-level
\* directory; and it returns true exactly when the normalised join of every
\* entry with the destination starts with the destination and a separator.
C2_SafeForEveryAbsoluteDestination ==
    sCalled =>
        /\ (IsAbs(sDest) /\ UnderOwnTop(sNames)) => sResult
        /\ sResult <=>
              \A k \in 1..Len(sNames) :
                  StartsWithDir(normpath(join(sDest, sNames[k])), WithSep(sDest))

IdleSafe ==
    /\ sDest = <<"">>
    /\ sNames = <<>>
    /\ sCalled = FALSE
    /\ sResult = FALSE

InitInstall == InitInstallVars /\ IdleSafe /\ IdlePublish /\ IdleMore

SpecInstall == InitInstall /\ [][NextInstall]_vars

InitPublish == IdlePublish /\ IdleSafe /\ IdleInstall /\ IdleMore

SpecPublish == InitPublish /\ [][NextPublish]_vars

-----------------------------------------------------------------------------
(* SpecUnpublish: unpublish and unpublish_repo on published copies         *)

MaxUnpublish == 2

\* the tree a publish of the modules ms copies to a protocol's location when
\* every link was made
BuiltTree(ms) ==
    [exists   |-> TRUE,
     links    |-> {_build_relative_path(ms[k]) : k \in 1..Len(ms)},
     metadata |-> <<RepositoryMetadata(ms)>>,
     depdata  |-> <<_generate_dependency_data(<<>>, ms)>>]

\* what a protocol's location can hold: nothing (never published, or not
\* served), the directory a failed copytree left, or a published tree
PublishedTrees == {Absent, EmptyTree} \cup {BuiltTree(ms) : ms \in ModuleLists}

\* unpublish that calls rmtree without looking whether the copy is there
NoGuard_unpublish_error(tree) == IF tree.exists THEN "" ELSE "OSError"

\* the exception unpublish raises by itself for what the location holds:
\* none, since rmtree is called only when os.path.exists(repo_dest_dir)
unpublish_error(tree) == ""

InitUnpublish ==
    /\ pub \in [{"http", "https"} -> PublishedTrees]
    /\ pub0 = pub
    /\ config = [serve_http |-> FALSE, serve_https |-> FALSE]
    /\ repo_modules = <<>>
    /\ progress_report = NewProgress
    /\ snapshot = NewProgress
    /\ updates = 0
    /\ ppc = "idle"
    /\ modules = <<>>
    /\ mi = 0
    /\ exc = [stage |-> "", e |-> ""]
    /\ build = Absent
    /\ final_report = build_final_report(NewProgress)
    /\ run = 0
    /\ prev_ok = FALSE
    /\ built = Absent
    /\ ucalls = 0
    /\ ucall = ""
    /\ uraised = ""
    /\ ubefore = pub
    /\ IdleUninstall
    /\ IdleIndex
    /\ IdleMeta
    /\ IdleChecksum
    /\ IdleValidate
    /\ IdleSafe
    /\ IdleRuns
    /\ IdleInstall

\* what unpublish_repo and unpublish leave alone
UnpublishFrame ==
    /\ ubefore' = pub
    /\ UNCHANGED <<config, repo_modules, progress_report, snapshot, updates,
                   ppc, modules, mi, exc, build, final_report, run, prev_ok,
                   pub0, built>>
    /\ UNCHANGED <<runVars, safeVars, instVars, uninstVars, indexVars, metaVars, sumVars,
                   validVars>>

\* unpublish(protocol_directory, repo) for one protocol directory: the copy
\* is removed when it is there; rmtree may be refused, with the copy left
Unpublish ==
    /\ ucalls < MaxUnpublish
    /\ ucalls' = ucalls + 1
    /\ \E proto \in {"http", "https"} :
          /\ ucall' = proto
          /\ \/ /\ unpublish_error(pub[proto]) /= ""
                /\ uraised' = unpublish_error(pub[proto])
                /\ UNCHANGED pub
             \/ /\ unpublish_error(pub[proto]) = ""
                /\ uraised' = ""
                /\ pub' = [pub EXCEPT ![proto] = unpublish(@)]
             \/ /\ pub[proto].exists
                /\ uraised' = "OSError: refused"
                /\ UNCHANGED pub
    /\ UnpublishFrame

\* unpublish_repo(repo, config): unpublish for the HTTP directory, then for
\* the HTTPS directory; an exception of the first leaves the second untouched
UnpublishRepo ==
    /\ ucalls < MaxUnpublish
    /\ ucalls' = ucalls + 1
    /\ ucall' = "repo"
    /\ LET e1 == unpublish_error(pub.http)
           e2 == unpublish_error(pub.https)
       IN  \/ /\ e1 /= ""
              /\ uraised' = e1
              /\ UNCHANGED pub
           \/ /\ e1 = "" /\ e2 /= ""
              /\ uraised' = e2
              /\ pub' = [pub EXCEPT !.http = unpublish(@)]
           \/ /\ e1 = "" /\ e2 = ""
              /\ uraised' = ""
              /\ pub' = [http |-> unpublish(pub.http), https |-> unpublish(pub.https)]
           \/ /\ pub.http.exists
              /\ uraised' = "OSError: refused"
              /\ UNCHANGED pub
           \/ /\ e1 = "" /\ pub.https.exists
              /\ uraised' = "OSError: refused"
              /\ pub' = [pub EXCEPT !.http = unpublish(@)]
    /\ UnpublishFrame

NextUnpublish == Unpublish \/ UnpublishRepo

SpecUnpublish == InitUnpublish /\ [][NextUnpublish]_vars

\* the protocol directories a call is about
Targets(call) == IF call = "repo" THEN {"http", "https"} ELSE {call}

\* C11: unpublish and unpublish_repo are idempotent.  A call made when no
\* copy is at the locations it is about (never published, or removed by a
\* call before) raises nothing and changes nothing; and every call that
\* raises nothing leaves no copy at the locations it is about.
C11_UnpublishIdempotent ==
    [][ucalls' = ucalls + 1 =>
          /\ (\A p \in Targets(ucall') : ~pub[p].exists) =>
                (uraised' = "" /\ pub' = pub)
          /\ uraised' = "" =>
                (\A p \in Targets(ucall') : ~pub'[p].exists)]_vars

\* two calls of unpublish_repo in a row on a repository published at both
\* locations: nothing raised, no copy left
C11_Witness ==
    /\ ucalls = 2
    /\ ucall = "repo"
    /\ uraised = ""
    /\ pub0.http.links /= {} /\ pub0.https.links /= {}
    /\ ~ubefore.http.exists /\ ~ubefore.https.exists
    /\ pub = ubefore

-----------------------------------------------------------------------------
(* SpecUninstall: distributor_removed on a destination                     *)

MaxRemoved == 2

\* what the top level of the destination can hold under each of three
\* names: nothing, a directory (an installed module) or a file
DestinationTrees ==
    {[n \in present |-> [dir |-> n \in dirs, c |-> {Old}]] :
        present \in SUBSET {"o", "x", "y"}, dirs \in SUBSET {"o", "x", "y"}}

InitUninstall ==
    /\ install_path \in InstallPaths
    /\ \/ destExists = FALSE /\ live = EmptyDir
       \/ destExists = TRUE /\ live \in DestinationTrees
    /\ live0 = live
    /\ destExists0 = destExists
    /\ repo_units = <<>>
    /\ detail_report = NewReport
    /\ ipc = "off"
    /\ units = <<>>
    /\ idx = 0
    /\ stageExists = FALSE
    /\ stage = EmptyDir
    /\ outside = {}
    /\ opened = {}
    /\ outcome = "none"
    /\ summary = ""
    /\ cleared = FALSE
    /\ IdleUninstall
    /\ IdleUnpublish
    /\ IdleIndex
    /\ IdleMeta
    /\ IdleChecksum
    /\ IdleValidate
    /\ IdleSafe
    /\ IdleRuns
    /\ IdlePublish

\* distributor_removed(repo, config): nothing without an install path;
\* otherwise _clear_destination_directory(destination), whose os.listdir
\* raises when the destination is not there, and whose rmtree may be
\* refused after some of the directories were removed
DistributorRemoved ==
    /\ dcalls < MaxRemoved
    /\ dcalls' = dcalls + 1
    /\ \/ /\ not_destination(install_path)
          /\ draised' = ""
          /\ UNCHANGED live
       \/ /\ ~not_destination(install_path)
          /\ ~destExists
          /\ draised' = "OSError: No such file or directory"
          /\ UNCHANGED live
       \/ /\ ~not_destination(install_path)
          /\ destExists
          /\ draised' = ""
          /\ live' = _clear_destination_directory(live)
       \/ /\ ~not_destination(install_path)
          /\ destExists
          /\ \E gone \in SUBSET Dirs(live) :
                /\ gone /= Dirs(live)
                /\ live' = [n \in (DOMAIN live) \ gone |-> live[n]]
          /\ draised' = "OSError: refused"
    /\ UNCHANGED <<install_path, repo_units, detail_report, ipc, units, idx,
                   destExists, stageExists, stage, outside, opened, outcome,
                   summary, live0, destExists0, cleared>>
    /\ UNCHANGED <<runVars, safeVars, pubVars, unpubVars, indexVars, metaVars, sumVars,
                   validVars>>

NextUninstall == DistributorRemoved

SpecUninstall == InitUninstall /\ [][NextUninstall]_vars

\* C12 as claimed: distributor_removed does nothing to the filesystem when
\* no install path is configured; a call that returns leaves no directory
\* in the destination; and a second call right after the first changes
\* nothing and raises nothing (calls in which the operating system refuses
\* a removal set aside).
C12_DistributorRemovedIdempotent ==
    [][dcalls' = dcalls + 1 =>
          /\ not_destination(install_path) =>
                (draised' = "" /\ live' = live /\ destExists' = destExists)
          /\ (~not_destination(install_path) /\ draised' = "") =>
                /\ Dirs(live') = {}
                /\ \A n \in (DOMAIN live) \ Dirs(live) : n \in DOMAIN live' /\ live'[n] = live[n]
          /\ (dcalls = 1 /\ draised /= "OSError: refused"
                         /\ draised' /= "OSError: refused") =>
                (draised' = "" /\ live' = live /\ destExists' = destExists)]_vars

-----------------------------------------------------------------------------
(* SpecIndex: _generate_dependency_data on a list of modules               *)

MaxIndexed == 3

\* the modules of the index runs: three versions of al/x, and bo/y
IndexModules ==
    {PModule("al", "x", "1", "al-x-1.tar.gz"),
     PModule("al", "x", "2", "al-x-2.tar.gz"),
     PModule("al", "x", "10", "al-x-10.tar.gz"),
     PModule("bo", "y", "1", "bo-y-1.tar.gz")}

\* the lists get_units can return: distinct modules, in any order
IndexLists ==
    UNION {{s \in [1..n -> IndexModules] :
               \A i, j \in 1..n : i /= j => s[i] /= s[j]} : n \in 0..MaxIndexed}

\* what can be at the path of the index file: nothing, or the index an
\* earlier publish wrote
PriorIndexes ==
    {<< >>} \cup {<<_generate_dependency_data(<< >>, <<m>>)>> : m \in IndexModules}

InitIndex ==
    /\ index_modules \in IndexLists
    /\ db_prior \in PriorIndexes
    /\ depdb = << >>
    /\ index_i = 0
    /\ index_pc = "start"
    /\ IdleUninstall
    /\ IdleUnpublish
    /\ IdleMeta
    /\ IdleChecksum
    /\ IdleValidate
    /\ IdleSafe
    /\ IdleRuns
    /\ IdleInstall
    /\ IdlePublish

IndexFrame ==
    UNCHANGED <<runVars, safeVars, instVars, pubVars, unpubVars, uninstVars, metaVars,
                sumVars, validVars>>

\* db = gdbm.open(filename, 'n')
OpenIndex ==
    /\ index_pc = "start"
    /\ depdb' = gdbm_open(db_prior)
    /\ index_pc' = "loop"
    /\ UNCHANGED <<index_modules, db_prior, index_i>>
    /\ IndexFrame

\* one turn of the loop: the record of the module is stored under its key,
\* or the module's file cannot be read and the call raises (db.close() in
\* the finally clause)
StoreModule ==
    /\ index_pc = "loop"
    /\ index_i < Len(index_modules)
    /\ \/ /\ depdb' = _generate_dependency_data(
                          depdb, <<index_modules[index_i + 1]>>)
          /\ index_i' = index_i + 1
          /\ UNCHANGED index_pc
       \/ /\ index_pc' = "raised"
          /\ UNCHANGED <<depdb, index_i>>
    /\ UNCHANGED <<index_modules, db_prior>>
    /\ IndexFrame

\* the loop is over: db.close()
CloseIndex ==
    /\ index_pc = "loop"
    /\ index_i = Len(index_modules)
    /\ index_pc' = "done"
    /\ UNCHANGED <<index_modules, db_prior, depdb, index_i>>
    /\ IndexFrame

NextIndex == OpenIndex \/ StoreModule \/ CloseIndex

SpecIndex == InitIndex /\ [][NextIndex]_vars

\* ---- properties of the index
KeyString(m) == m.unit_key.author \o "/" \o m.unit_key.name

RecordOf(m) ==
    [file         |-> _repo_path \o _build_relative_path(m),
     version      |-> m.unit_key.version,
     dependencies |-> m.metadata.dependencies,
     file_md5     |-> md5(m.storage_path)]

IndexPositions == 1..Len(index_modules)

\* the modules with key k, in the order of the modules argument
WithKey(k) == SelectSeq(index_modules, LAMBDA m : KeyString(m) = k)

\* C13: after _generate_dependency_data over a list of modules, the keys of
\* the index are exactly the 'author/name' strings of the modules, there are
\* as many records as modules, every record is the file path, version,
\* dependencies and checksum of one module under that module's key and
\* every module has its record, and nothing of the index found at the path
\* is kept.
C13_IndexIsExactlyTheModules ==
    index_pc = "done" =>
        /\ DOMAIN depdb = {KeyString(index_modules[j]) : j \in IndexPositions}
        /\ Cardinality(UNION {{<<k, i>> : i \in 1..Len(depdb[k])} :
                                 k \in DOMAIN depdb})
               = Len(index_modules)
        /\ \A k \in DOMAIN depdb : \A i \in 1..Len(depdb[k]) :
               \E j \in IndexPositions :
                   /\ KeyString(index_modules[j]) = k
                   /\ depdb[k][i] = RecordOf(index_modules[j])
        /\ \A j \in IndexPositions :
               \E i \in 1..Len(depdb[KeyString(index_modules[j])]) :
                   depdb[KeyString(index_modules[j])][i]
                       = RecordOf(index_modules[j])
        /\ Len(db_prior) = 1 =>
               \A k \in DOMAIN db_prior[1] :
                   /\ (\A j \in IndexPositions : KeyString(index_modules[j]) /= k)
                          => k \notin DOMAIN depdb
                   /\ \A i \in 1..Len(db_prior[1][k]) :
                          (\A j \in IndexPositions :
                               RecordOf(index_modules[j]) /= db_prior[1][k][i])
                          => (k \in DOMAIN depdb =>
                                 \A n \in 1..Len(depdb[k]) :
                                     depdb[k][n] /= db_prior[1][k][i])

\* two modules with distinct keys are indexed over a file that an earlier
\* publish left with a record that is not theirs
C13_Witness ==
    /\ index_pc = "done"
    /\ Len(index_modules) = 2
    /\ DOMAIN depdb = {"al/x", "bo/y"}
    /\ Len(db_prior) = 1
    /\ \A j \in IndexPositions :
           \A k \in DOMAIN db_prior[1] :
               db_prior[1][k][1] /= RecordOf(index_modules[j])

\* C14: the records of the modules that share an (author, name) are one
\* list under the key 'author/name', in the order in which the modules were
\* presented.
C14_SharedKeyInsertionOrder ==
    index_pc = "done" =>
        \A j \in IndexPositions :
            LET k == KeyString(index_modules[j])
            IN  /\ k \in DOMAIN depdb
                /\ depdb[k] = [i \in 1..Len(WithKey(k)) |-> RecordOf(WithKey(k)[i])]

\* versions 2, 10, 1 of al/x presented in that order, which is neither order
\* of the version numbers nor of the version strings
C14_Witness ==
    /\ index_pc = "done"
    /\ Len(index_modules) = 3
    /\ \A j \in IndexPositions : KeyString(index_modules[j]) = "al/x"
    /\ index_modules[1].unit_key.version = "2"
    /\ index_modules[2].unit_key.version = "10"
    /\ index_modules[3].unit_key.version = "1"
    /\ Len(depdb["al/x"]) = 3
    /\ depdb["al/x"][1].version = "2"
    /\ depdb["al/x"][2].version = "10"
    /\ depdb["al/x"][3].version = "1"

-----------------------------------------------------------------------------
(* SpecMeta: extract_metadata (importers/metadata.py)                      *)

\* constants.MODULE_METADATA_FILENAME
MODULE_METADATA_FILENAME == "metadata.json"

\* ---- the files of an archive and of temp_dir: a function from a path to
\* what is there, a regular file with its text, a directory, or a symbolic
\* link whose target does not exist
RegularFile(text) == [kind |-> "file", c |-> text]

Directory == [kind |-> "dir", c |-> ""]

DanglingLink == [kind |-> "link", c |-> ""]

Entries(pairs) ==
    [q \in {e[1] : e \in pairs} |-> (CHOOSE e \in pairs : e[1] = q)[2]]

\* os.path.isfile(path)
isfile(fs, path) == path \in DOMAIN fs /\ fs[path].kind = "file"

\* os.path.isdir(path)
isdir(fs, path) == path \in DOMAIN fs /\ fs[path].kind = "dir"

\* os.listdir(dir), as a set: the order of the names is not specified
listdir(fs, dir) ==
    {q[Len(q)] : q \in {r \in DOMAIN fs : Len(r) = Len(dir) + 1 /\ IsPrefix(dir, r)}}

\* shutil.rmtree(dir)
rmtree(fs, dir) == [q \in {r \in DOMAIN fs : ~IsPrefix(dir, r)} |-> fs[q]]

\* os.remove(path)
remove(fs, path) == [q \in (DOMAIN fs) \ {path} |-> fs[q]]

\* json.loads of the descriptor texts of the model
json_loads(text) ==
    CASE text = "{\"name\": \"al-x\"}" -> [name |-> "al-x"]
      [] text = "{\"name\": \"al-x\", \"version\": \"1\"}" ->
             [name |-> "al-x", version |-> "1"]

\* tarfile.open(name=filename) of an archive that cannot be opened, taken
\* for a missing descriptor
Missing_open_exception(tgz) ==
    IF tgz.opens THEN "" ELSE "MissingModuleFile"

\* _extract_json, lines 128-131: tarfile.open(name=filename) in the try
\* whose handler raises InvalidTarball; "" when the archive opens
open_exception(tgz) == IF tgz.opens THEN "" ELSE "InvalidTarball"

\* '%s-%s-%s/%s' % (module.author, module.name, module.version,
\*                  constants.MODULE_METADATA_FILENAME)
metadata_file_path(module) ==
    <<module.author \o "-" \o module.name \o "-" \o module.version,
      MODULE_METADATA_FILENAME>>

\* tgz.extract(member, path=temp_dir): the member is written under temp_dir,
\* in the directories of its name
extract(fs, tgz, member, path) ==
    Entries({<<join(path, SubSeq(member, 1, n)), Directory>> :
                 n \in 1..(Len(member) - 1)}
            \cup {<<join(path, member), tgz.entries[member]>>}) @@ fs

\* tgz.extractall(path=extraction_dir)
tar_extractall(fs, tgz, path) ==
    [q \in {join(path, member) : member \in DOMAIN tgz.entries} |->
        tgz.entries[CHOOSE member \in DOMAIN tgz.entries : join(path, member) = q]]
    @@ fs

\* the outcomes of _find_file_in_dir
Found(dir) == [kind |-> "found", path |-> dir]

NotFound == [kind |-> "none", path |-> << >>]

Raised(type) == [kind |-> type, path |-> << >>]

\* _find_file_in_dir(dir, filename): the set of the outcomes over the orders
\* in which os.listdir can give the names.  A name that is not a regular
\* file is searched as a directory, and os.listdir raises OSError on what
\* is not one; a directory found below is joined to dir once more.
RECURSIVE _find_file_in_dir(_, _, _), find_loop(_, _, _, _)
_find_file_in_dir(fs, dir, filename) ==
    IF ~isdir(fs, dir) THEN {Raised("OSError")}
    ELSE find_loop(fs, dir, filename, listdir(fs, dir))

find_loop(fs, dir, filename, names) ==
    IF names = {} THEN {NotFound}
    ELSE UNION {
        LET file_or_dir == join(dir, <<found>>)
        IN  IF isfile(fs, file_or_dir)
            THEN IF found = filename
                 THEN {Found(dir)}
                 ELSE find_loop(fs, dir, filename, names \ {found})
            ELSE UNION {
                IF sub_dir.kind = "found"
                THEN {Found(join(dir, sub_dir.path))}
                ELSE IF sub_dir.kind = "none"
                THEN find_loop(fs, dir, filename, names \ {found})
                ELSE {sub_dir}
                : sub_dir \in _find_file_in_dir(fs, file_or_dir, filename)}
        : found \in names}

\* ---- inputs
Filename == <<"", "in", "al-x-1.tar.gz">>

TempDirs == {<<"", "work">>, <<"work">>}

Modules == {<< >>, <<[author |-> "al", name |-> "x", version |-> "1"]>>}

Descriptor == RegularFile("{\"name\": \"al-x\"}")

Tarball(opens, extracts, pairs) ==
    [opens |-> opens, extracts |-> extracts, entries |-> Entries(pairs)]

\* archives: one that cannot be opened; one that opens and cannot be
\* extracted; and archives with the descriptor at the conventional place,
\* in another directory, two directories down, at the top, or nowhere, with
\* and without a symbolic link to a missing target
Tarballs ==
    {Tarball(FALSE, FALSE, {}),
     Tarball(TRUE, FALSE, {<<<<"al-x-1">>, Directory>>,
                           <<<<"al-x-1", "metadata.json">>, Descriptor>>}),
     Tarball(TRUE, TRUE, {<<<<"al-x-1">>, Directory>>,
                          <<<<"al-x-1", "metadata.json">>, Descriptor>>}),
     Tarball(TRUE, TRUE, {<<<<"x">>, Directory>>,
                          <<<<"x", "metadata.json">>, Descriptor>>}),
     Tarball(TRUE, TRUE, {<<<<"x">>, Directory>>,
                          <<<<"x", "y">>, Directory>>,
                          <<<<"x", "y", "metadata.json">>, Descriptor>>}),
     Tarball(TRUE, TRUE, {<<<<"metadata.json">>, Descriptor>>,
                          <<<<"Modulefile">>, RegularFile("name 'al-x'")>>}),
     Tarball(TRUE, TRUE, {<<<<"al-x-1">>, Directory>>,
                          <<<<"al-x-1", "Modulefile">>, RegularFile("name 'al-x'")>>}),
     Tarball(TRUE, TRUE, {<<<<"al-x-1">>, Directory>>,
                          <<<<"al-x-1", "metadata.json">>, Descriptor>>,
                          <<<<"al-x-1", "latest">>, DanglingLink>>}),
     Tarball(TRUE, TRUE, {<<<<"x">>, Directory>>,
                          <<<<"x", "metadata.json">>, Descriptor>>,
                          <<<<"x", "latest">>, DanglingLink>>}),
     Tarball(TRUE, TRUE, {<<<<"x">>, Directory>>,
                          <<<<"x", "Modulefile">>, RegularFile("name 'al-x'")>>,
                          <<<<"x", "latest">>, DanglingLink>>})}

InitMeta ==
    /\ meta_filename = Filename
    /\ temp_dir \in TempDirs
    /\ meta_module \in Modules
    /\ tarball \in Tarballs
    /\ tmpfs = Entries({<<temp_dir, Directory>>})
    /\ extraction_dir = << >>
    /\ mpc = "start"
    /\ standard_exc = ""
    /\ fallback_ran = FALSE
    /\ metadata_result = << >>
    /\ meta_exc = [type |-> "", module_filename |-> << >>]
    /\ IdleUninstall
    /\ IdleUnpublish
    /\ IdleIndex
    /\ IdleChecksum
    /\ IdleValidate
    /\ IdleSafe
    /\ IdleRuns
    /\ IdleInstall
    /\ IdlePublish

MetaFrame ==
    /\ UNCHANGED <<meta_filename, temp_dir, meta_module, tarball>>
    /\ UNCHANGED <<runVars, safeVars, instVars, pubVars, unpubVars, uninstVars, indexVars,
                   sumVars, validVars>>

\* raise e(...): the call ends
MetaRaise(type, module_filename) ==
    /\ mpc' = "raised"
    /\ meta_exc' = [type |-> type, module_filename |-> module_filename]
    /\ UNCHANGED metadata_result

\* return json.loads(metadata)
MetaReturn(metadata) ==
    /\ mpc' = "returned"
    /\ metadata_result' = <<json_loads(metadata)>>
    /\ UNCHANGED meta_exc

\* extract_metadata, lines 79-86: without a module the search of the whole
\* archive, else the standard place first
ExtractMetadata ==
    /\ mpc = "start"
    /\ IF meta_module = << >>
       THEN mpc' = "mkdtemp" /\ fallback_ran' = TRUE
       ELSE mpc' = "standard" /\ UNCHANGED fallback_ran
    /\ UNCHANGED <<tmpfs, extraction_dir, standard_exc, metadata_result, meta_exc>>
    /\ MetaFrame

\* _extract_json(module, filename, temp_dir) and what extract_metadata does
\* with its outcome (lines 86-91): MissingModuleFile starts the search of
\* the whole archive, any other exception leaves the call
ExtractJson ==
    /\ mpc = "standard"
    /\ LET member == metadata_file_path(meta_module[1])
           temp_filename == join(temp_dir, member)
           extracted == extract(tmpfs, tarball, member, temp_dir)
       IN  IF open_exception(tarball) /= ""
           THEN /\ standard_exc' = open_exception(tarball)
                /\ IF open_exception(tarball) = "MissingModuleFile"
                   THEN /\ mpc' = "mkdtemp"
                        /\ fallback_ran' = TRUE
                        /\ UNCHANGED <<metadata_result, meta_exc>>
                   ELSE /\ MetaRaise(open_exception(tarball), meta_filename)
                        /\ UNCHANGED fallback_ran
                /\ UNCHANGED tmpfs
           ELSE IF member \notin DOMAIN tarball.entries \/ ~tarball.extracts
           THEN /\ standard_exc' = "MissingModuleFile"
                /\ mpc' = "mkdtemp"
                /\ fallback_ran' = TRUE
                /\ UNCHANGED <<tmpfs, metadata_result, meta_exc>>
           ELSE IF isfile(extracted, temp_filename)
           THEN /\ standard_exc' = "ok"
                /\ tmpfs' = remove(extracted, temp_filename)
                /\ MetaReturn(extracted[temp_filename].c)
                /\ UNCHANGED fallback_ran
           ELSE /\ standard_exc' = "IOError"
                /\ tmpfs' = IF isdir(extracted, temp_filename)
                            THEN extracted
                            ELSE remove(extracted, temp_filename)
                /\ MetaRaise(IF isdir(extracted, temp_filename)
                             THEN "OSError" ELSE "IOError", << >>)
                /\ UNCHANGED fallback_ran
    /\ UNCHANGED extraction_dir
    /\ MetaFrame

\* _extract_non_standard_json, line 165:
\* extraction_dir = tempfile.mkdtemp(dir=temp_dir), which is temp_dir joined
\* with a new name
Mkdtemp ==
    /\ mpc = "mkdtemp"
    /\ extraction_dir' = join(temp_dir, <<"tmpAB">>)
    /\ tmpfs' = Entries({<<extraction_dir', Directory>>}) @@ tmpfs
    /\ mpc' = "extractall"
    /\ UNCHANGED <<standard_exc, fallback_ran, metadata_result, meta_exc>>
    /\ MetaFrame

\* _extract_non_standard_json, lines 168-173: the archive is opened and
\* extracted whole; any exception is raised as InvalidTarball
ExtractAll ==
    /\ mpc = "extractall"
    /\ IF open_exception(tarball) /= "" \/ ~tarball.extracts
       THEN /\ MetaRaise("InvalidTarball", meta_filename)
            /\ UNCHANGED tmpfs
       ELSE /\ tmpfs' = tar_extractall(tmpfs, tarball, extraction_dir)
            /\ mpc' = "search"
            /\ UNCHANGED <<metadata_result, meta_exc>>
    /\ UNCHANGED <<extraction_dir, standard_exc, fallback_ran>>
    /\ MetaFrame

\* _extract_non_standard_json, lines 175-188: the descriptor is looked for
\* and read, and the extraction directory is removed in the finally clause
Search ==
    /\ mpc = "search"
    /\ \E metadata_file_dir \in
              _find_file_in_dir(tmpfs, extraction_dir, MODULE_METADATA_FILENAME) :
          LET metadata_filename ==
                  join(metadata_file_dir.path, <<MODULE_METADATA_FILENAME>>)
          IN  IF metadata_file_dir.kind = "none"
              THEN MetaRaise("MissingModuleFile", meta_filename)
              ELSE IF metadata_file_dir.kind /= "found"
              THEN MetaRaise(metadata_file_dir.kind, << >>)
              ELSE IF isfile(tmpfs, metadata_filename)
              THEN MetaReturn(tmpfs[metadata_filename].c)
              ELSE MetaRaise("OSError", << >>)
    /\ tmpfs' = rmtree(tmpfs, extraction_dir)
    /\ UNCHANGED <<extraction_dir, standard_exc, fallback_ran>>
    /\ MetaFrame

NextMeta == ExtractMetadata \/ ExtractJson \/ Mkdtemp \/ ExtractAll \/ Search

SpecMeta == InitMeta /\ [][NextMeta]_vars

\* ---- properties of extract_metadata
MetaDone == mpc \in {"returned", "raised"}

ModuleKnown == meta_module /= << >>

\* the regular files of the archive that are named as the descriptor
Descriptors(tgz) ==
    {q \in DOMAIN tgz.entries :
        Last(q) = MODULE_METADATA_FILENAME /\ tgz.entries[q].kind = "file"}

\* C15 as claimed: the directory the fallback search made is gone when the
\* call ends, whatever the outcome.
C15_ExtractionDirRemoved ==
    (MetaDone /\ extraction_dir /= << >>) => extraction_dir \notin DOMAIN tmpfs

\* C16 as claimed: with a known module the conventional entry is tried
\* first and alone; the search of the whole archive runs exactly when that
\* attempt ended in MissingModuleFile or no module was given; and when the
\* archive holds the descriptor anywhere the call returns its parsed
\* content.
C16_FallbackAndContent ==
    /\ fallback_ran => (~ModuleKnown \/ standard_exc = "MissingModuleFile")
    /\ (MetaDone /\ (~ModuleKnown \/ standard_exc = "MissingModuleFile"))
           => fallback_ran
    /\ (ModuleKnown /\ mpc /= "start" /\ ~fallback_ran) =>
           \A q \in DOMAIN tmpfs :
               IsPrefix(q, join(temp_dir, metadata_file_path(meta_module[1])))
    /\ (MetaDone /\ tarball.opens /\ tarball.extracts
                 /\ Descriptors(tarball) /= {}) =>
           /\ mpc = "returned"
           /\ \E q \in Descriptors(tarball) :
                  metadata_result = <<json_loads(tarball.entries[q].c)>>

\* C17: when the archive cannot be opened the call raises InvalidTarball
\* with the archive's path; with a known module the search of the whole
\* archive does not run, and without one it is the search that raises.
C17_UnopenableIsInvalidTarball ==
    (MetaDone /\ ~tarball.opens) =>
        /\ mpc = "raised"
        /\ meta_exc = [type |-> "InvalidTarball", module_filename |-> meta_filename]
        /\ ModuleKnown => (~fallback_ran /\ standard_exc = "InvalidTarball")
        /\ ~ModuleKnown => (fallback_ran /\ standard_exc = "")

\* the archive cannot be opened and the module is known: the standard path
\* has raised InvalidTarball
C17_Witness ==
    /\ MetaDone
    /\ ~tarball.opens
    /\ ModuleKnown
    /\ meta_exc.type = "InvalidTarball"
    /\ meta_exc.module_filename = Filename

\* C18 as claimed: for an archive that opens and is extracted and has no
\* file named as the descriptor, the call raises MissingModuleFile with the
\* archive's path, with and without a module, and nothing is left under
\* temp_dir.
C18_NoDescriptorIsMissingModuleFile ==
    (MetaDone /\ tarball.opens /\ tarball.extracts
              /\ Descriptors(tarball) = {}) =>
        /\ mpc = "raised"
        /\ meta_exc = [type |-> "MissingModuleFile", module_filename |-> meta_filename]
        /\ DOMAIN tmpfs = {temp_dir}

-----------------------------------------------------------------------------
(* SpecChecksum: calculate_checksum, and the checksum loop of              *)
(* _generate_dependency_data                                               *)

MaxContent == 4

\* the sizes given to f.read, which stand for CHECKSUM_READ_BUFFER_SIZE
\* (65536) and for the 128 of _generate_dependency_data
MaxChunk == 3

Bytes == {0, 65}

FileContents == UNION {[1..n -> Bytes] : n \in 0..MaxContent}

\* f.read(size) that gives nothing when fewer than size bytes are left
DropPartial_read(content, pos, size) ==
    IF pos + size <= Len(content)
    THEN SubSeq(content, pos + 1, pos + size)
    ELSE << >>

\* f.read(size) at position pos: the next size bytes, or those that are
\* left, or the empty string at the end of the file
read(content, pos, size) ==
    SubSeq(content, pos + 1,
           IF pos + size <= Len(content) THEN pos + size ELSE Len(content))

\* hashlib.new(...): a hash object that has been given nothing
hash_new == [h |-> 5381, n |-> 0]

\* m.update(data): the bytes are taken in one after the other into the
\* state of the hash object
RECURSIVE update(_, _)
update(m, data) ==
    IF data = << >> THEN m
    ELSE update([h |-> (m.h * 33 + Head(data)) % 65536, n |-> m.n + 1],
                Tail(data))

\* m.hexdigest(): the digest of what the hash object was given
hexdigest(m) == (m.h * 33 + m.n) % 65536

InitChecksum ==
    /\ file_content \in FileContents
    /\ read_size \in 1..MaxChunk
    /\ file_pos = 0
    /\ hash_m = hash_new
    /\ fed = << >>
    /\ reads = 0
    /\ checksum = << >>
    /\ cpc = "loop"
    /\ IdleUninstall
    /\ IdleUnpublish
    /\ IdleIndex
    /\ IdleMeta
    /\ IdleValidate
    /\ IdleSafe
    /\ IdleRuns
    /\ IdleInstall
    /\ IdlePublish

\* one turn of the loop with a read that gives bytes: m.update(file_buffer)
ReadChunk ==
    /\ cpc = "loop"
    /\ LET file_buffer == read(file_content, file_pos, read_size)
       IN  /\ file_buffer /= << >>
           /\ hash_m' = update(hash_m, file_buffer)
           /\ fed' = fed \o file_buffer
           /\ file_pos' = file_pos + Len(file_buffer)
    /\ reads' = reads + 1
    /\ UNCHANGED <<file_content, read_size, checksum, cpc>>
    /\ UNCHANGED <<runVars, safeVars, instVars, pubVars, unpubVars, uninstVars,
                   indexVars, metaVars, validVars>>

\* the read that gives nothing: break, and return m.hexdigest()
ReturnDigest ==
    /\ cpc = "loop"
    /\ read(file_content, file_pos, read_size) = << >>
    /\ reads' = reads + 1
    /\ checksum' = <<hexdigest(hash_m)>>
    /\ cpc' = "done"
    /\ UNCHANGED <<file_content, read_size, file_pos, hash_m, fed>>
    /\ UNCHANGED <<runVars, safeVars, instVars, pubVars, unpubVars, uninstVars,
                   indexVars, metaVars, validVars>>

NextChecksum == ReadChunk \/ ReturnDigest

SpecChecksum == InitChecksum /\ [][NextChecksum]_vars

\* C19: the digest returned is the digest of the whole content given to the
\* hash object at once, whatever the size of the reads, and the bytes given
\* to the hash object are the bytes of the file, each once and in order.
C19_ChecksumIndependentOfChunkSize ==
    cpc = "done" =>
        /\ checksum = <<hexdigest(update(hash_new, file_content))>>
        /\ fed = file_content

\* a file of three different bytes in sequence read two bytes at a time:
\* a full read, a short read and the empty read
C19_Witness ==
    /\ cpc = "done"
    /\ file_content = <<0, 65, 0>>
    /\ read_size = 2
    /\ reads = 3
    /\ checksum /= << >>

-----------------------------------------------------------------------------
(* SpecValidate: validate_config and the install run that follows it       *)

MaxPieces == 3

\* the strings a configuration can give as install path, by their pieces
\* between "/": "" is <<"">>, "/" is <<"", "">>, "srv/d" is <<"srv", "d">>
PathStrings ==
    UNION {[1..n -> {"", "srv", ".", ".."}] : n \in 1..MaxPieces}

\* what config.get(CONFIG_INSTALL_PATH) can give: None, a value that is not
\* a string, or a string
ProposedPaths ==
    {[type |-> "none", value |-> << >>], [type |-> "int", value |-> << >>]}
    \cup {[type |-> "str", value |-> q] : q \in PathStrings}

\* validate_config that accepts every configuration
AcceptAll_validate_config(path) == [valid |-> TRUE, msg |-> ""]

\* validate_config(repo, config, config_conduit), lines 70-76, on
\* path = config.get(CONFIG_INSTALL_PATH); msg "" is None
validate_config(path) ==
    IF path.type /= "str" THEN [valid |-> TRUE, msg |-> ""]
    ELSE IF ~IsAbs(path.value)
    THEN [valid |-> FALSE, msg |-> "install path is not absolute"]
    ELSE [valid |-> TRUE, msg |-> ""]

InitValidate ==
    /\ proposed \in ProposedPaths
    /\ validated = << >>
    /\ run_destination = << >>
    /\ vpc = "proposed"
    /\ IdleUninstall
    /\ IdleUnpublish
    /\ IdleIndex
    /\ IdleMeta
    /\ IdleChecksum
    /\ IdleSafe
    /\ IdleRuns
    /\ IdleInstall
    /\ IdlePublish

\* the configuration is validated; a rejected one is not stored
ValidateConfig ==
    /\ vpc = "proposed"
    /\ validated' = <<validate_config(proposed)>>
    /\ vpc' = IF validate_config(proposed).valid THEN "accepted" ELSE "rejected"
    /\ UNCHANGED <<proposed, run_destination>>
    /\ UNCHANGED <<runVars, safeVars, instVars, pubVars, unpubVars, uninstVars,
                   indexVars, metaVars, sumVars>>

\* publish_repo, line 95, with the configuration that was accepted:
\* destination = config.get(CONFIG_INSTALL_PATH)
RunInstall ==
    /\ vpc = "accepted"
    /\ run_destination' = <<proposed>>
    /\ vpc' = "running"
    /\ UNCHANGED <<proposed, validated>>
    /\ UNCHANGED <<runVars, safeVars, instVars, pubVars, unpubVars, uninstVars,
                   indexVars, metaVars, sumVars>>

NextValidate == ValidateConfig \/ RunInstall

SpecValidate == InitValidate /\ [][NextValidate]_vars

\* the string starts with "/"
StartsWithSlash(q) == Len(q) >= 2 /\ q[1] = ""

\* C20: validate_config returns False and a message for every install path
\* that is a string and not absolute, and True for every install path that
\* is an absolute string; an install run that follows an accepted
\* configuration with a string path has an absolute destination.
C20_RelativePathRejected ==
    /\ (validated /= << >> /\ proposed.type = "str") =>
           IF StartsWithSlash(proposed.value)
           THEN validated[1].valid /\ vpc /= "rejected"
           ELSE ~validated[1].valid /\ validated[1].msg /= "" /\ vpc = "rejected"
    /\ (run_destination /= << >> /\ run_destination[1].type = "str") =>
           StartsWithSlash(run_destination[1].value)

\* the relative path '../srv' has been rejected with the message
C20_Witness ==
    /\ proposed = [type |-> "str", value |-> <<"..", "srv">>]
    /\ validated = <<[valid |-> FALSE, msg |-> "install path is not absolute"]>>
    /\ vpc = "rejected"

-----------------------------------------------------------------------------
(* SpecInstallRuns: publish_repo called several times on one distributor   *)

MaxInstallRuns == 2

\* the units of the repository at each call: none, or one unit whose
\* archive is a module, has two top-level directories, or cannot be read
RerunLists ==
    {<< >>} \cup
    {<<[unit_key |-> [author |-> "a", name |-> "x", version |-> "1"],
        archive  |-> a]>> : a \in {Std("p"), TwoTops, Unreadable}}

InitInstallRuns ==
    /\ install_path \in InstallPaths
    /\ repo_units \in RerunLists
    /\ detail_report = NewReport
    /\ ipc = "idle"
    /\ units = <<>>
    /\ idx = 0
    /\ \E l \in LiveInits :
          destExists = l.exists /\ live = l.tree /\
          destExists0 = l.exists /\ live0 = l.tree
    /\ stageExists = FALSE
    /\ stage = EmptyDir
    /\ outside = {}
    /\ opened = {}
    /\ outcome = "none"
    /\ summary = ""
    /\ cleared = FALSE
    /\ iruns = 1
    /\ dangling = {}
    /\ IdleOverlap
    /\ IdleCancel
    /\ IdleStore
    /\ IdleCommit
    /\ IdleUnpublish
    /\ IdleUninstall
    /\ IdleIndex
    /\ IdleMeta
    /\ IdleChecksum
    /\ IdleValidate
    /\ IdleSafe
    /\ IdlePublish

\* publish_repo is called again on the same distributor, with the units
\* the repository has then: the locals are new, self.detail_report is the
\* object __init__ made (no line of publish_repo replaces or empties it),
\* and a temporary directory the call before did not remove stays where it
\* is (no line of publish_repo looks for one)
PublishRepoAgain ==
    /\ ipc = "done"
    /\ iruns < MaxInstallRuns
    /\ iruns' = iruns + 1
    /\ dangling' = IF stageExists THEN dangling \cup {iruns} ELSE dangling
    /\ repo_units' \in RerunLists
    /\ ipc' = "idle"
    /\ units' = <<>>
    /\ idx' = 0
    /\ stageExists' = FALSE
    /\ stage' = EmptyDir
    /\ opened' = {}
    /\ outcome' = "none"
    /\ summary' = ""
    /\ live0' = live
    /\ destExists0' = destExists
    /\ cleared' = FALSE
    /\ UNCHANGED <<install_path, detail_report, destExists, live, outside>>
    /\ UNCHANGED <<safeVars, pubVars, unpubVars, uninstVars, indexVars,
                   metaVars, sumVars, validVars, overlapVars, cancelVars,
                   storeVars, commitVars>>

NextInstallRuns ==
    \/ Begin \/ CheckUnit \/ Prepare \/ StageUnit \/ AfterStage
    \/ Clear \/ Move \/ PublishRepoAgain

SpecInstallRuns == InitInstallRuns /\ [][NextInstallRuns]_vars

\* the unit keys of the units of the running call
KeysOfRun == {repo_units[i].unit_key : i \in 1..Len(repo_units)}

\* C22 as claimed: every call of publish_repo begins with an empty detail
\* report, and the report of a call names only units of that call, also
\* when the call follows an earlier one on the same distributor.
C22_EveryRunStartsWithEmptyReport ==
    /\ ipc = "idle" => detail_report = NewReport
    /\ \A k \in 1..Len(detail_report.errors) :
           detail_report.errors[k][1] \in KeysOfRun
    /\ \A k \in 1..Len(detail_report.success_unit_keys) :
           detail_report.success_unit_keys[k] \in KeysOfRun

\* C29 as claimed: once a call has made its temporary directory, no
\* temporary directory of an earlier call is left beside the destination.
C29_AtMostOneStagingDirectory ==
    stageExists => dangling = {}

\* the entries of the detail report for the unit key, in either list
SuccessesFor(key) ==
    {k \in 1..Len(detail_report.success_unit_keys) :
        detail_report.success_unit_keys[k] = key}

EntriesFor(key) == Cardinality(SuccessesFor(key)) + Cardinality(ErrorsFor(key))

\* C26 as claimed: in the loop that extracts and renames, every unit the
\* loop has been through has one entry in the detail report, in
\* success_unit_keys or in errors, and every unit still to come has none;
\* so after the loop every unit has exactly one entry.
C26_EveryUnitOnceInReport ==
    (ipc = "stage" \/ (ipc \in {"clear", "move"} /\ idx > Len(units))) =>
        \A i \in UnitIds :
            EntriesFor(KeyOf(i)) = IF i < idx THEN 1 ELSE 0

\* the loop of a first call is over, with a unit that failed and one that
\* was extracted and renamed after it
C26_FirstCall ==
    /\ iruns = 0
    /\ ipc = "stage"
    /\ idx > Len(units)
    /\ \E i, j \in UnitIds :
          /\ i < j
          /\ ErrorsFor(KeyOf(i)) /= {}
          /\ SuccessesFor(KeyOf(j)) /= {}

\* the entry names of the unit's archive share one single first component
OneTop(unit) == Cardinality(dir_names(getnames(unit.archive))) = 1

\* the first components of the entry names of the unit's archive
TopOf(unit) == CHOOSE d \in dir_names(getnames(unit.archive)) : TRUE

\* C27 as claimed: in a turn of the loop that extracts and renames, a unit
\* whose entry names do not share one single first component gets an error
\* in the detail report (of the extraction, or the ValueError of
\* _rename_directory) and the loop goes on, and no run with such a unit
\* gets to the clearing of the destination; a unit whose entry names share
\* exactly one first component is, unless the operating system fails the
\* extraction or the rename and that error is recorded, counted as a
\* success with the extracted directory under the unit's name and no
\* longer under its own.
C27_RenameRaisesOrRenames ==
    [][ /\ (ipc = "stage" /\ idx <= Len(units)) =>
              LET unit == units[idx] IN
              IF ~OneTop(unit)
              THEN /\ idx' = idx + 1
                   /\ ipc' = "stage"
                   /\ \E e \in {"IOError", "OSError", "ValueError"} :
                         detail_report' = error(detail_report, unit.unit_key, e)
              ELSE /\ idx' = idx + 1
                   /\ ipc' = "stage"
                   /\ \/ \E e \in {"IOError", "OSError"} :
                            detail_report' = error(detail_report, unit.unit_key, e)
                      \/ /\ detail_report' = success(detail_report, unit.unit_key)
                         /\ unit.unit_key.name \in DOMAIN stage'
                         /\ TopOf(unit) /= unit.unit_key.name =>
                               TopOf(unit) \notin DOMAIN stage'
        /\ ipc' \in {"clear", "move"} => \A i \in UnitIds : OneTop(units[i]) ]_vars

\* the same for the units whose first component is a name, not '..'
C27_NamedTopOnly ==
    [][ (ipc = "stage" /\ idx <= Len(units) /\ OneTop(units[idx])
         /\ TopOf(units[idx]) /= "..") =>
              LET unit == units[idx] IN
              /\ idx' = idx + 1
              /\ \/ \E e \in {"IOError", "OSError"} :
                       detail_report' = error(detail_report, unit.unit_key, e)
                 \/ /\ detail_report' = success(detail_report, unit.unit_key)
                    /\ unit.unit_key.name \in DOMAIN stage'
                    /\ TopOf(unit) /= unit.unit_key.name =>
                          TopOf(unit) \notin DOMAIN stage' ]_vars

-----------------------------------------------------------------------------
(* SpecOverlap: runs of one pipeline for one repository at the same time.  *)
(* Nothing in publish.py or installdistributor.py takes a lock, so the     *)
(* steps of the runs interleave freely.                                    *)

\* the repository both runs are for
Repo == [id |-> "repo", working_dir |-> <<"", "work">>]

\* PuppetModulePublishRun._build_dir
_build_dir(repo) == join(repo.working_dir, <<"build", repo.id>>)

\* the names tempfile.mkdtemp can make up
MkdtempNames == {"pulpAAAAAA", "pulpBBBBBB", "pulpCCCCCC"}

\* tempfile.mkdtemp(prefix='pulp', dir=basedir): the paths it can return
\* when the paths of `existing` are there; it makes the directory with
\* os.mkdir and tries another name when the name is taken
mkdtemp(basedir, existing) ==
    {join(basedir, <<n>>) : n \in MkdtempNames} \ existing

Active(r) == opc[r] \notin {"off", "done"}

\* the files of the directory, none when it is not there
FilesIn(d) == IF d \in DOMAIN ofs THEN ofs[d] ELSE {}

\* run r does op to the files: what of it falls on files another run
\* staged and has not finished with
Foreign(r, files, op) ==
    {[by |-> r, owner |-> f.owner, op |-> op] :
        f \in {g \in files : g.owner /= r /\ Active(g.owner)}}

\* the directory is made, or made empty
WithDir(d, files) == (d :> files) @@ [e \in (DOMAIN ofs) \ {d} |-> ofs[e]]

WithoutDir(d) == [e \in (DOMAIN ofs) \ {d} |-> ofs[e]]

OverlapFrame ==
    UNCHANGED <<iruns, dangling, cancelVars, storeVars, commitVars, safeVars, instVars, pubVars,
                unpubVars, uninstVars, indexVars, metaVars, sumVars, validVars>>

InitOverlap ==
    /\ opipe \in {"publish", "install"}
    /\ opc = [r \in Runs |-> "off"]
    /\ odir = [r \in Runs |-> << >>]
    /\ ofs = << >>
    /\ oforeign = {}
    /\ iruns = 0
    /\ dangling = {}
    /\ IdleCancel
    /\ IdleStore
    /\ IdleCommit
    /\ IdleUnpublish
    /\ IdleUninstall
    /\ IdleIndex
    /\ IdleMeta
    /\ IdleChecksum
    /\ IdleValidate
    /\ IdleSafe
    /\ IdleInstall
    /\ IdlePublish

\* the platform starts a run: perform_publish or publish_repo is entered
StartRun ==
    \E r \in Runs :
        /\ opc[r] = "off"
        /\ opc' = [opc EXCEPT ![r] = IF opipe = "publish" THEN "init_build"
                                                          ELSE "mkdtemp"]
        /\ UNCHANGED <<opipe, odir, ofs, oforeign>>
        /\ OverlapFrame

\* _init_build_dir of a publish run: rmtree of the build directory when it
\* is there, with all that is in it, and makedirs
OverlapInitBuildDir ==
    \E r \in Runs :
        LET d == _build_dir(Repo) IN
        /\ opc[r] = "init_build"
        /\ odir' = [odir EXCEPT ![r] = d]
        /\ oforeign' = oforeign \cup Foreign(r, FilesIn(d), "delete")
        /\ ofs' = WithDir(d, {})
        /\ opc' = [opc EXCEPT ![r] = "link"]
        /\ UNCHANGED opipe
        /\ OverlapFrame

\* _symlink_modules of a publish run: the directories on the way to the
\* link are made when they are not there, and the link is made
OverlapSymlinkModules ==
    \E r \in Runs :
        LET d == _build_dir(Repo) IN
        /\ opc[r] = "link"
        /\ ofs' = WithDir(d, FilesIn(d) \cup {[name |-> "link", owner |-> r]})
        /\ opc' = [opc EXCEPT ![r] = "generate"]
        /\ UNCHANGED <<opipe, odir, oforeign>>
        /\ OverlapFrame

\* _generate_metadata and _generate_dependency_data of a publish run: the
\* files are opened for writing in the build directory, which replaces
\* the files of these names that are there; IOError when the directory
\* is not there, and the METADATA stage fails
OverlapGenerateMetadata ==
    \E r \in Runs :
        LET d    == _build_dir(Repo)
            mine == {[name |-> n, owner |-> r] : n \in {"metadata", "index"}}
            old  == {f \in FilesIn(d) : f.name \in {"metadata", "index"}}
        IN
        /\ opc[r] = "generate"
        /\ IF d \in DOMAIN ofs
           THEN /\ ofs' = WithDir(d, (FilesIn(d) \ old) \cup mine)
                /\ oforeign' = oforeign \cup Foreign(r, old, "delete")
                /\ opc' = [opc EXCEPT ![r] = "copy"]
           ELSE /\ opc' = [opc EXCEPT ![r] = "done"]
                /\ UNCHANGED <<ofs, oforeign>>
        /\ UNCHANGED <<opipe, odir>>
        /\ OverlapFrame

\* _copy_to_published of a publish run: copytree reads all that is in the
\* build directory; OSError when the directory is not there
OverlapCopyToPublished ==
    \E r \in Runs :
        LET d == _build_dir(Repo) IN
        /\ opc[r] = "copy"
        /\ IF d \in DOMAIN ofs
           THEN /\ oforeign' = oforeign \cup Foreign(r, FilesIn(d), "read")
                /\ opc' = [opc EXCEPT ![r] = "cleanup"]
           ELSE /\ opc' = [opc EXCEPT ![r] = "done"]
                /\ UNCHANGED oforeign
        /\ UNCHANGED <<opipe, odir, ofs>>
        /\ OverlapFrame

\* _cleanup_build_dir of a publish run: rmtree of the build directory with
\* all that is in it; OSError when the directory is not there
OverlapCleanupBuildDir ==
    \E r \in Runs :
        LET d == _build_dir(Repo) IN
        /\ opc[r] = "cleanup"
        /\ oforeign' = oforeign \cup Foreign(r, FilesIn(d), "delete")
        /\ ofs' = WithoutDir(d)
        /\ opc' = [opc EXCEPT ![r] = "done"]
        /\ UNCHANGED <<opipe, odir>>
        /\ OverlapFrame

\* _create_temporary_destination_directory of an install run
OverlapCreateTemporary ==
    \E r \in Runs :
        \E d \in mkdtemp(get_parent_directory(Destination), DOMAIN ofs) :
            /\ opc[r] = "mkdtemp"
            /\ odir' = [odir EXCEPT ![r] = d]
            /\ ofs' = WithDir(d, {})
            /\ opc' = [opc EXCEPT ![r] = "extract"]
            /\ UNCHANGED <<opipe, oforeign>>
            /\ OverlapFrame

\* the loop of an install run that extracts into its temporary directory
OverlapExtract ==
    \E r \in Runs :
        /\ opc[r] = "extract"
        /\ ofs' = WithDir(odir[r], FilesIn(odir[r])
                                      \cup {[name |-> "module", owner |-> r]})
        /\ opc' = [opc EXCEPT ![r] = "move"]
        /\ UNCHANGED <<opipe, odir, oforeign>>
        /\ OverlapFrame

\* _move_to_destination_directory of an install run: what is in the
\* temporary directory is moved away and the directory is removed
OverlapMoveToDestination ==
    \E r \in Runs :
        /\ opc[r] = "move"
        /\ oforeign' = oforeign \cup Foreign(r, FilesIn(odir[r]), "read")
        /\ ofs' = WithoutDir(odir[r])
        /\ opc' = [opc EXCEPT ![r] = "done"]
        /\ UNCHANGED <<opipe, odir>>
        /\ OverlapFrame

NextOverlap ==
    \/ StartRun
    \/ OverlapInitBuildDir
    \/ OverlapSymlinkModules
    \/ OverlapGenerateMetadata
    \/ OverlapCopyToPublished
    \/ OverlapCleanupBuildDir
    \/ OverlapCreateTemporary
    \/ OverlapExtract
    \/ OverlapMoveToDestination

SpecOverlap == InitOverlap /\ [][NextOverlap]_vars

\* C30 as claimed: two runs that are going at the same time never work in
\* the same staging directory, and no run has deleted or read a file that
\* another run staged and had not finished with.
C30_StagingExclusivelyOwned ==
    /\ \A r1, r2 \in Runs :
          (r1 /= r2 /\ Active(r1) /\ Active(r2) /\ odir[r1] /= << >>) =>
              odir[r1] /= odir[r2]
    /\ oforeign = {}

\* the same for install runs only
C30_InstallRunsOnly ==
    opipe = "install" => C30_StagingExclusivelyOwned

\* two install runs are going, each with a module in its own directory
C30_InstallOverlap ==
    /\ opipe = "install"
    /\ \A r \in Runs : opc[r] = "move" /\ FilesIn(odir[r]) /= {}

-----------------------------------------------------------------------------
(* SpecCancel: a publish run whose is_cancelled_call starts to return True *)

\* what self.is_cancelled_call() would return now
is_cancelled_call == cancelled_in /= 0 /\ cancelled_in = run

\* the platform cancels the run: from now on is_cancelled_call returns True
Cancel ==
    /\ ppc \notin {"idle", "returned"}
    /\ ~is_cancelled_call
    /\ cancelled_in' = run
    /\ UNCHANGED <<iruns, dangling, overlapVars, storeVars, commitVars>>
    /\ UNCHANGED <<safeVars, instVars, pubVars, unpubVars, uninstVars,
                   indexVars, metaVars, sumVars, validVars>>

NextCancel ==
    \/ NewRun
    \/ ModulesStart
    \/ InitBuildDir
    \/ RetrieveRepoModules
    \/ SymlinkStart
    \/ SymlinkModule
    \/ ModulesEnd
    \/ ModulesExcept
    \/ MetadataStart
    \/ GenerateMetadata
    \/ GenerateDependencyData
    \/ CopyHTTP
    \/ CopyHTTPS
    \/ CleanupBuildDir
    \/ MetadataEnd
    \/ MetadataExcept
    \/ Finally
    \/ Cancel

SpecCancel == InitPublish /\ [][NextCancel]_vars

\* C31 as claimed: when is_cancelled_call returns True after the MODULES
\* stage has finished and before the METADATA stage is entered, the
\* METADATA stage is not started; and a turn of the link loop that has
\* begun is gone through whether the run is cancelled or not.
C31_CancelledBetweenStages ==
    [][ /\ (is_cancelled_call /\ ppc = "metadata") =>
              /\ progress_report'.metadata_state /= STATE_RUNNING
              /\ ppc' /= "generate_metadata"
        /\ (ppc = "link" /\ mi <= Len(modules) /\ mi' /= mi) =>
              (ppc' = "link" /\ mi' = mi + 1) ]_vars

\* the link loop alone: a turn that has begun is gone through, cancelled
\* or not
C31_LinkNotInterrupted ==
    [][ (ppc = "link" /\ mi <= Len(modules) /\ mi' /= mi) =>
            (ppc' = "link" /\ mi' = mi + 1) ]_vars

-----------------------------------------------------------------------------
(* SpecStorage: the stored archives under the operations of both           *)
(* pipelines.  The filesystem has files and symbolic links, so that what   *)
(* an operation does to a link and what it does to the link's target are   *)
(* told apart.                                                             *)

FileNode(c) == [kind |-> "file", content |-> c, to |-> << >>]

LinkNode(t) == [kind |-> "link", content |-> << >>, to |-> t]

\* unit.storage_path of the stored archives, and what they hold
StoragePaths == {m.storage_path : m \in PModules}

StoredContent(path) == <<"archive", basename(path)>>

\* the directory is there
DirExists(fs, dir) == \E r \in DOMAIN fs : IsPrefix(dir, r)

\* the directories at the top level of dir
TopDirs(fs, dir) ==
    {r[Len(dir) + 1] :
        r \in {q \in DOMAIN fs : IsPrefix(dir, q) /\ Len(q) > Len(dir) + 1}}

MaxLinks == 2

\* the path the operating system opens for `path`: the symbolic links on
\* the way, and at its end, are followed
RECURSIVE ResolveLinks(_, _, _)
ResolveLinks(fs, path, n) ==
    LET ks == {k \in 1..Len(path) :
                  /\ SubSeq(path, 1, k) \in DOMAIN fs
                  /\ fs[SubSeq(path, 1, k)].kind = "link"}
    IN  IF ks = {} \/ n = 0 THEN path
        ELSE LET k == CHOOSE j \in ks : \A i \in ks : j <= i
             IN  ResolveLinks(fs, fs[SubSeq(path, 1, k)].to
                                     \o SubSeq(path, k + 1, Len(path)), n - 1)

\* open(path, 'wb') and the write of the content
WriteFile(fs, path, c) ==
    (ResolveLinks(fs, path, MaxLinks) :> FileNode(c)) @@ fs

\* os.symlink(source, link_name)
symlink(fs, source, link_name) == (link_name :> LinkNode(source)) @@ fs

\* the tree at `from` seen at `to`: the paths below from, re-rooted
Rerooted(fs, from, to) ==
    LET moved == {r \in DOMAIN fs : IsPrefix(from, r)}
        At(r) == to \o SubSeq(r, Len(from) + 1, Len(r))
    IN  [q \in {At(r) : r \in moved} |->
            fs[CHOOSE r \in moved : At(r) = q]]

\* shutil.copytree(src, dst, symlinks=True): links are copied as links
copytree_symlinks(fs, src, dst) == Rerooted(fs, src, dst) @@ fs

\* shutil.move(src, dst) of a directory to a place that is free: os.rename
move(fs, src, dst) == Rerooted(fs, src, dst) @@ rmtree(fs, src)

\* shutil.rmtree of every directory of dirs; a link in them is removed,
\* what it points to is not
RECURSIVE rmtrees(_, _)
rmtrees(fs, dirs) ==
    IF dirs = {} THEN fs
    ELSE LET d == CHOOSE x \in dirs : TRUE
         IN  rmtrees(rmtree(fs, d), dirs \ {d})

\* the archives of the install units: members [name, kind, linkname]
ModuleTar ==
    <<[name |-> <<"p", "f">>, kind |-> "file", linkname |-> << >>]>>

\* a link p/l to the directory of the stored archives, and a file below it
LinkTar ==
    <<[name |-> <<"p", "l">>, kind |-> "sym", linkname |-> <<"", "content">>],
      [name |-> <<"p", "l", "al-x-2.tar.gz">>, kind |-> "file",
       linkname |-> << >>]>>

\* the stored archive by its absolute path, and by a relative one
AbsoluteTar ==
    <<[name |-> <<"", "content", "al-x-2.tar.gz">>, kind |-> "file",
       linkname |-> << >>]>>

ParentTar ==
    <<[name |-> <<"..", "..", "content", "al-x-2.tar.gz">>, kind |-> "file",
       linkname |-> << >>]>>

StoreArchives == {ModuleTar, LinkTar, AbsoluteTar, ParentTar}

MemberNames(members) == [i \in 1..Len(members) |-> members[i].name]

\* tarfile's extractall(tmp): a file member is opened for writing at the
\* joined path, a link member is made with os.symlink
RECURSIVE store_extractall(_, _, _)
store_extractall(fs, members, tmp) ==
    IF members = << >> THEN fs
    ELSE LET m  == Head(members)
             at == Target(tmp, m.name)
             fs1 == IF m.kind = "sym" THEN symlink(fs, m.linkname, at)
                    ELSE WriteFile(fs, at, <<"member">> \o m.name)
         IN  store_extractall(fs1, Tail(members), tmp)

\* where a protocol serves the repository
ProtocolRepoDir(proto) == <<"", proto, Repo.id>>

StoreFrame ==
    UNCHANGED <<iruns, dangling, overlapVars, cancelVars, commitVars, safeVars, instVars,
                pubVars, unpubVars, uninstVars, indexVars, metaVars, sumVars,
                validVars>>

InitStorage ==
    /\ store_fs = [path \in StoragePaths |-> FileNode(StoredContent(path))]
    /\ store_op = ""
    /\ iruns = 0
    /\ dangling = {}
    /\ IdleOverlap
    /\ IdleCommit
    /\ IdleCancel
    /\ IdleUnpublish
    /\ IdleUninstall
    /\ IdleIndex
    /\ IdleMeta
    /\ IdleChecksum
    /\ IdleValidate
    /\ IdleSafe
    /\ IdleInstall
    /\ IdlePublish

\* the MODULES stage of a publish: _init_build_dir, and a link to the stored
\* archive of every module
RECURSIVE LinkAll(_, _, _)
LinkAll(fs, ms, build_dir) ==
    IF ms = << >> THEN fs
    ELSE LinkAll(symlink(fs, Head(ms).storage_path,
                         join(build_dir, _build_relative_path(Head(ms)))),
                 Tail(ms), build_dir)

StoreModulesStep ==
    \E ms \in ModuleLists :
        /\ Len(ms) = Cardinality(PModules)
        /\ store_fs' = LinkAll(rmtree(store_fs, _build_dir(Repo)), ms,
                               _build_dir(Repo))
        /\ store_op' = "modules"
        /\ StoreFrame

\* the METADATA stage of a publish up to the copies: the stored archives
\* are opened for reading, metadata and index are written to the build
\* directory
StoreGenerate ==
    /\ DirExists(store_fs, _build_dir(Repo))
    /\ store_fs' =
          WriteFile(WriteFile(store_fs,
                              join(_build_dir(Repo), <<"REPO_METADATA_FILENAME">>),
                              <<"metadata">>),
                    join(_build_dir(Repo), <<"REPO_DEPDATA_FILENAME">>),
                    <<"index">>)
    /\ store_op' = "generate"
    /\ StoreFrame

\* _copy_to_published for one protocol: unpublish, and copytree when the
\* protocol serves
StoreCopyToPublished ==
    \E proto \in {"http", "https"}, should_serve \in BOOLEAN :
        LET gone == rmtree(store_fs, ProtocolRepoDir(proto)) IN
        /\ DirExists(store_fs, _build_dir(Repo))
        /\ store_fs' = IF should_serve
                       THEN copytree_symlinks(gone, _build_dir(Repo),
                                              ProtocolRepoDir(proto))
                       ELSE gone
        /\ store_op' = "copy"
        /\ StoreFrame

\* _cleanup_build_dir
StoreCleanupBuildDir ==
    /\ DirExists(store_fs, _build_dir(Repo))
    /\ store_fs' = rmtree(store_fs, _build_dir(Repo))
    /\ store_op' = "cleanup"
    /\ StoreFrame

\* unpublish_repo
StoreUnpublishRepo ==
    /\ store_fs' = rmtree(rmtree(store_fs, ProtocolRepoDir("http")),
                          ProtocolRepoDir("https"))
    /\ store_op' = "unpublish"
    /\ StoreFrame

\* publish_repo of the install distributor for one unit, up to the end of
\* the loop that extracts: the archive is opened for reading, its names are
\* checked against the destination, it is extracted below the temporary
\* directory and the directory it made is renamed
StoreStage ==
    \E members \in StoreArchives :
        LET tmp   == _create_temporary_destination_directory(Destination)
            full  == store_extractall(rmtree(store_fs, tmp), members, tmp)
            top   == FirstPiece(members[1].name)
        IN
        /\ _archive_paths_are_safe(Destination, MemberNames(members))
        /\ store_fs' = IF top = "x" THEN full
                       ELSE move(full, Append(tmp, top), Append(tmp, "x"))
        /\ store_op' = "stage"
        /\ StoreFrame

\* the end of publish_repo of the install distributor:
\* _clear_destination_directory and _move_to_destination_directory
StoreCommit ==
    LET tmp     == _create_temporary_destination_directory(Destination)
        cleared1 == rmtrees(store_fs, {Append(Destination, n) :
                                        n \in TopDirs(store_fs, Destination)})
        moved   == Rerooted(cleared1, tmp, Destination) @@ rmtree(cleared1, tmp)
    IN
    /\ DirExists(store_fs, tmp)
    /\ store_fs' = moved
    /\ store_op' = "commit"
    /\ StoreFrame

\* distributor_removed: _clear_destination_directory
StoreDistributorRemoved ==
    /\ store_fs' = rmtrees(store_fs, {Append(Destination, n) :
                                        n \in TopDirs(store_fs, Destination)})
    /\ store_op' = "removed"
    /\ StoreFrame

NextStorage ==
    \/ StoreModulesStep
    \/ StoreGenerate
    \/ StoreCopyToPublished
    \/ StoreCleanupBuildDir
    \/ StoreUnpublishRepo
    \/ StoreStage
    \/ StoreCommit
    \/ StoreDistributorRemoved

SpecStorage == InitStorage /\ [][NextStorage]_vars

\* C32 as claimed: whatever operations of the two pipelines have run, every
\* stored archive is there with the content it had.
C32_StoredArchivesUnchanged ==
    \A path \in StoragePaths :
        /\ path \in DOMAIN store_fs
        /\ store_fs[path] = FileNode(StoredContent(path))

\* the operations of the publish pipeline, and of the install pipeline when
\* no link of an archive stands in the temporary directory or in the
\* destination, leave every stored archive as it is
LinksOfArchives ==
    {r \in DOMAIN store_fs :
        /\ store_fs[r].kind = "link"
        /\ \/ IsPrefix(Destination, r)
           \/ IsPrefix(_create_temporary_destination_directory(Destination), r)}

C32_WithoutArchiveLinks ==
    [][ (store_op' \in {"modules", "generate", "copy", "cleanup", "unpublish"}
         \/ LinksOfArchives' = {}) =>
           \A path \in StoragePaths :
               /\ path \in DOMAIN store_fs'
               /\ (path \in DOMAIN store_fs => store_fs'[path] = store_fs[path])
       ]_vars

-----------------------------------------------------------------------------
(* SpecCommit: the entries that the clear, the move and                    *)
(* distributor_removed act on.  The top level of the destination and of    *)
(* the staging directory holds directories, files and symbolic links;      *)
(* os.path.isdir and os.path.exists follow a link, os.path.islink and      *)
(* os.rename do not.                                                       *)

DirEntry(c) == [kind |-> "dir", c |-> c, to |-> ""]

FileEntry(c) == [kind |-> "file", c |-> c, to |-> ""]

\* a symbolic link, and what its target is: a directory ("dir"), a file
\* ("file") or nothing ("none")
LinkEntry(to) == [kind |-> "link", c |-> "", to |-> to]

\* os.path.isdir(path)
entry_isdir(e) == e.kind = "dir" \/ (e.kind = "link" /\ e.to = "dir")

\* os.path.islink(path)
entry_islink(e) == e.kind = "link"

\* os.path.exists(path)
entry_exists(e) == e.kind /= "link" \/ e.to /= "none"

Without(tree, names) == [n \in (DOMAIN tree) \ names |-> tree[n]]

\* _clear_destination_directory(destination), lines 303-306, in any order
\* os.listdir may give: shutil.rmtree removes a directory, and raises
\* OSError("Cannot call rmtree on a symbolic link") for a link to a
\* directory, after which the directories not yet visited stay; or the
\* filesystem refuses a removal
CommitClearOutcomes(tree) ==
    LET listed == {n \in DOMAIN tree : entry_isdir(tree[n])}
        links  == {n \in listed : entry_islink(tree[n])}
        real   == listed \ links
    IN  (IF links = {}
         THEN {[raise |-> "", tree |-> Without(tree, real)]}
         ELSE {[raise |-> "OSError: Cannot call rmtree on a symbolic link",
                tree |-> Without(tree, gone)] : gone \in SUBSET real})
        \cup {[raise |-> "OSError: refused", tree |-> Without(tree, gone)] :
                 gone \in (SUBSET real) \ {real}}

\* shutil.move(path, destination) of the entry `name` of source can only
\* fail: the name exists in the destination (shutil.Error), or it is a
\* dangling link there and the source is a directory, which os.rename and
\* then copytree refuse (OSError).  A link renamed onto a dangling link
\* replaces it.
MoveRaises(source, dest, name) ==
    IF name \notin DOMAIN dest THEN ""
    ELSE IF entry_exists(dest[name]) THEN "Error"
    ELSE IF entry_islink(source[name]) THEN ""
    ELSE "OSError"

\* _move_to_destination_directory(source, destination), lines 345-349, in
\* any order os.listdir may give: every entry that os.path.isdir accepts is
\* moved, then the source is removed; a move that raises leaves the entries
\* not yet visited in the source; or the filesystem refuses a move or the
\* removal of the source
CommitMoveOutcomes(source, dest) ==
    LET listed == {n \in DOMAIN source : entry_isdir(source[n])}
        bad    == {n \in listed : MoveRaises(source, dest, n) /= ""}
        good   == listed \ bad
        Moved(names) == [n \in names |-> source[n]] @@ dest
    IN  (IF bad = {}
         THEN {[raise |-> "", dest |-> Moved(listed),
                source |-> [exists |-> FALSE, tree |-> << >>]]}
         ELSE {[raise |-> MoveRaises(source, dest, b), dest |-> Moved(names),
                source |-> [exists |-> TRUE, tree |-> Without(source, names)]] :
                  b \in bad, names \in SUBSET good})
        \cup {[raise |-> "OSError: refused", dest |-> Moved(names),
               source |-> [exists |-> TRUE, tree |-> Without(source, names)]] :
                 names \in (SUBSET good) \ {good}}
        \cup (IF bad = {}
              THEN {[raise |-> "OSError: refused", dest |-> Moved(listed),
                     source |-> [exists |-> TRUE,
                                 tree |-> Without(source, listed)]]}
              ELSE {})

\* ---- inputs
MaxCommitUnits == 2

\* a unit, by its name and by the one top-level member "p" of its archive:
\* a directory, a file, or a symbolic link to a directory outside the
\* destination
CommitUnits == [name : {"x", "y"}, member : {"dir", "file", "link"}]

\* the units of a repository with no name twice (lines 102-107 pass)
CommitUnitLists ==
    {us \in UNION {[1..n -> CommitUnits] : n \in 0..MaxCommitUnits} :
        \A i, j \in 1..Len(us) : us[i].name = us[j].name => i = j}

\* what extractall and _rename_directory leave in staging for a unit
Extracted(unit) ==
    CASE unit.member = "dir" -> DirEntry(unit.name)
      [] unit.member = "file" -> FileEntry(unit.name)
      [] unit.member = "link" -> LinkEntry("dir")

\* the destination before the first call: absent, empty, or holding a
\* directory with a file, with a link to a directory, or with a dangling
\* link
CommitDestinations ==
    { [exists |-> FALSE, tree |-> << >>],
      [exists |-> TRUE, tree |-> << >>],
      [exists |-> TRUE, tree |-> ("o" :> DirEntry("old")) @@ ("x" :> FileEntry("old"))],
      [exists |-> TRUE, tree |-> ("o" :> DirEntry("old")) @@ ("l" :> LinkEntry("dir"))],
      [exists |-> TRUE, tree |-> ("o" :> DirEntry("old")) @@ ("y" :> LinkEntry("none"))] }

CommitFrame ==
    UNCHANGED <<iruns, dangling, overlapVars, cancelVars, storeVars, safeVars,
                instVars, pubVars, unpubVars, uninstVars, indexVars, metaVars,
                sumVars, validVars>>

InitCommit ==
    /\ commit_units = << >>
    /\ commit_pc = "idle"
    /\ commit_idx = 0
    /\ commit_dest \in CommitDestinations
    /\ commit_tmp = [exists |-> FALSE, tree |-> << >>]
    /\ commit_report = ""
    /\ iruns = 0
    /\ dangling = {}
    /\ IdleOverlap
    /\ IdleCancel
    /\ IdleStore
    /\ IdleUnpublish
    /\ IdleUninstall
    /\ IdleIndex
    /\ IdleMeta
    /\ IdleChecksum
    /\ IdleValidate
    /\ IdleSafe
    /\ IdleInstall
    /\ IdlePublish

\* publish_repo, lines 95-121, with an install path and the units of the
\* repository: the destination is made when it is missing and a new staging
\* directory is made, unless the filesystem refuses
CommitBegin ==
    /\ commit_pc \in {"idle", "done"}
    /\ \E us \in CommitUnitLists : commit_units' = us
    /\ \/ /\ commit_dest' = [commit_dest EXCEPT !.exists = TRUE]
          /\ commit_tmp' = [exists |-> TRUE, tree |-> << >>]
          /\ commit_idx' = 1
          /\ commit_pc' = "stage"
          /\ commit_report' = ""
       \/ /\ commit_dest' \in {commit_dest, [commit_dest EXCEPT !.exists = TRUE]}
          /\ commit_tmp' = [exists |-> FALSE, tree |-> << >>]
          /\ commit_idx' = 0
          /\ commit_pc' = "done"
          /\ commit_report' = "failure: failed to create destination directory: refused"
    /\ CommitFrame

\* lines 124-134: one turn of the staging loop, in which the unit is
\* extracted and renamed, or reported as an error
CommitStageUnit ==
    /\ commit_pc = "stage"
    /\ commit_idx <= Len(commit_units)
    /\ LET unit == commit_units[commit_idx] IN
       \/ /\ commit_tmp' = [commit_tmp EXCEPT
                               !.tree = (unit.name :> Extracted(unit)) @@ @]
          /\ UNCHANGED commit_report
       \/ /\ commit_report' = "unit error"
          /\ UNCHANGED commit_tmp
    /\ commit_idx' = commit_idx + 1
    /\ UNCHANGED <<commit_units, commit_pc, commit_dest>>
    /\ CommitFrame

\* lines 136-138
CommitAfterStage ==
    /\ commit_pc = "stage"
    /\ commit_idx > Len(commit_units)
    /\ \/ /\ commit_report = "unit error"
          /\ commit_report' = "failure: failed publishing units"
          /\ commit_pc' = "done"
       \/ /\ commit_report /= "unit error"
          /\ commit_pc' = "clear"
          /\ UNCHANGED commit_report
    /\ UNCHANGED <<commit_units, commit_idx, commit_dest, commit_tmp>>
    /\ CommitFrame

\* lines 141-146
CommitClear ==
    /\ commit_pc = "clear"
    /\ \E o \in CommitClearOutcomes(commit_dest.tree) :
          /\ commit_dest' = [commit_dest EXCEPT !.tree = o.tree]
          /\ \/ /\ o.raise = ""
                /\ commit_pc' = "move"
                /\ UNCHANGED commit_report
             \/ /\ o.raise /= ""
                /\ commit_pc' = "done"
                /\ commit_report' =
                      IF o.raise = "OSError: refused"
                      THEN "failure: failed to clear destination directory: refused"
                      ELSE "failure: failed to clear destination directory: Cannot call rmtree on a symbolic link"
    /\ UNCHANGED <<commit_units, commit_idx, commit_tmp>>
    /\ CommitFrame

\* lines 149-160: shutil.Error is not an IOError or OSError and leaves
\* publish_repo
CommitMove ==
    /\ commit_pc = "move"
    /\ \E o \in CommitMoveOutcomes(commit_tmp.tree, commit_dest.tree) :
          /\ commit_dest' = [commit_dest EXCEPT !.tree = o.dest]
          /\ commit_tmp' = o.source
          /\ commit_report' =
                CASE o.raise = "" -> "success"
                  [] o.raise = "Error" -> "raised: shutil.Error"
                  [] o.raise = "OSError" ->
                       "failure: failed to move temporary destination to destination directory"
                  [] o.raise = "OSError: refused" ->
                       "failure: failed to move temporary destination to destination directory: refused"
    /\ commit_pc' = "done"
    /\ UNCHANGED <<commit_units, commit_idx>>
    /\ CommitFrame

\* distributor_removed with the install path, lines 171-175: os.listdir of
\* a destination that is not there raises OSError
CommitDistributorRemoved ==
    /\ commit_pc \in {"idle", "done"}
    /\ \/ /\ ~commit_dest.exists
          /\ commit_report' = "raised: OSError: No such file or directory"
          /\ UNCHANGED commit_dest
       \/ /\ commit_dest.exists
          /\ \E o \in CommitClearOutcomes(commit_dest.tree) :
                /\ commit_dest' = [commit_dest EXCEPT !.tree = o.tree]
                /\ commit_report' =
                      IF o.raise = "" THEN "removed" ELSE "raised: " \o o.raise
    /\ commit_pc' = "idle"
    /\ UNCHANGED <<commit_units, commit_idx, commit_tmp>>
    /\ CommitFrame

NextCommit ==
    \/ CommitBegin \/ CommitStageUnit \/ CommitAfterStage
    \/ CommitClear \/ CommitMove \/ CommitDistributorRemoved

SpecCommit == InitCommit /\ [][NextCommit]_vars

\* the entries of a tree that are not directories
NonDirectories(tree) == {n \in DOMAIN tree : tree[n].kind /= "dir"}

\* the step is the clear or the move of an install, or distributor_removed
CommitOrRemovedStep ==
    \/ commit_pc \in {"clear", "move"}
    \/ commit_pc \in {"idle", "done"} /\ commit_pc' = "idle"

\* the filesystem refused an operation of the run
Refused(report) ==
    report \in {"failure: failed to create destination directory: refused",
                "failure: failed to clear destination directory: refused",
                "failure: failed to move temporary destination to destination directory: refused"}

\* C36 as claimed: the clear and the move of an install and
\* distributor_removed leave every entry of the destination that is not a
\* directory as it was; the move brings no entry of staging that is not a
\* directory into the destination; and an install of an empty unit list
\* that the filesystem does not refuse returns the success report and
\* leaves an existing destination without a directory.
C36_OnlyDirectoriesCleared ==
    [][ /\ CommitOrRemovedStep =>
              \A n \in NonDirectories(commit_dest.tree) :
                 /\ n \in DOMAIN commit_dest'.tree
                 /\ commit_dest'.tree[n] = commit_dest.tree[n]
        /\ commit_pc = "move" =>
              \A n \in NonDirectories(commit_tmp.tree) :
                 \/ n \notin DOMAIN commit_dest'.tree
                 \/ /\ n \in DOMAIN commit_dest.tree
                    /\ commit_dest'.tree[n] = commit_dest.tree[n]
        /\ (commit_units = << >> /\ commit_pc /= "done" /\ commit_pc' = "done"
                                 /\ ~Refused(commit_report')) =>
              /\ commit_report' = "success"
              /\ commit_dest'.exists
              /\ \A n \in DOMAIN commit_dest'.tree : ~entry_isdir(commit_dest'.tree[n])
      ]_vars

\* no symbolic link in the destination, in staging or in an archive
NoLinks ==
    /\ \A n \in DOMAIN commit_dest.tree : ~entry_islink(commit_dest.tree[n])
    /\ \A n \in DOMAIN commit_tmp.tree : ~entry_islink(commit_tmp.tree[n])
    /\ \A i \in 1..Len(commit_units) : commit_units[i].member /= "link"

\* what holds of the claim of C36: all of it, for directories and files
C36_WithoutLinks ==
    [][ NoLinks =>
        /\ CommitOrRemovedStep =>
              \A n \in NonDirectories(commit_dest.tree) :
                 /\ n \in DOMAIN commit_dest'.tree
                 /\ commit_dest'.tree[n] = commit_dest.tree[n]
        /\ commit_pc = "move" =>
              \A n \in NonDirectories(commit_tmp.tree) :
                 \/ n \notin DOMAIN commit_dest'.tree
                 \/ /\ n \in DOMAIN commit_dest.tree
                    /\ commit_dest'.tree[n] = commit_dest.tree[n]
        /\ (commit_units = << >> /\ commit_pc /= "done" /\ commit_pc' = "done"
                                 /\ ~Refused(commit_report')) =>
              /\ commit_report' = "success"
              /\ commit_dest'.exists
              /\ \A n \in DOMAIN commit_dest'.tree : ~entry_isdir(commit_dest'.tree[n])
      ]_vars

=============================================================================
